---- MODULE Spec2Model ----
(***************************************************************************)
(* Model of the Claim-to-Evidence pipeline of factseeker-python-ai.        *)
(*                                                                         *)
(*   SpecCache    ensure_article_faiss: per-URL lock, local / object-store *)
(*                cache tiers, body fetch, build, persist, upload          *)
(*   SpecScore    calculate_source_diversity_score and                     *)
(*                calculate_fact_check_confidence on evidence lists        *)
(*   SpecClaim    process_claim_step: primary, secondary-provider and      *)
(*                overflow pass with concurrent Judge calls                *)
(*   SpecRequest  run_fact_check / run_article_fact_check: claim tasks     *)
(*                under the claim semaphore, gather, aggregation           *)
(*   SpecReload   lifespan, _watch_titles_preload_task and a request in    *)
(*                flight over the title partitions                         *)
(*   SpecRetrieve search_and_retrieve_docs_once: title-match stage over    *)
(*                the partitions, query-embedding fallback, bodies         *)
(*   SpecPrewarm  ensure_article_faiss called by the API server and by a   *)
(*                run of scripts/prewarm_articles.py                       *)
(*   SpecTwoRuns  two runs of run_fact_check / run_article_fact_check on   *)
(*                one input with the same collaborator outputs             *)
(*   SpecRequestFair  SpecRequest with the event loop's fairness           *)
(*   SpecCacheFair    SpecCache on a cold cache with the event loop's      *)
(*                fairness                                                 *)
(*   SpecWatch    the polling scripts watch_s3_titles_preload and          *)
(*                watch_s3_and_prewarm over the watched prefixes           *)
(*   SpecClean    clean_evidence_content on evidence texts                 *)
(*                                                                         *)
(* Each specification moves its own variables and leaves the others at     *)
(* their idle values.                                                      *)
(***************************************************************************)
EXTENDS Integers, Sequences, FiniteSets, TLC

VARIABLES
    \* ---- ensure_article_faiss (services/fact_checker.py) ----
    callPc,      \* per call: "idle", "wait" (on the URL lock), "fetch" (awaiting get_article_text), "done"
    callUrl,     \* per call: the URL it was called with, or NoUrl
    callRet,     \* per call: "none", "index", "absent", "raised"
    callProc,    \* per call: the process it runs in, "server" or "prewarm"
    url_locks,   \* per process and URL: [locked, waiters] of the asyncio.Lock in that
                 \* process's dict url_locks
    localIdx,    \* per URL: local cache directory: "absent", "good", "corrupt"
    s3Idx,       \* per URL: object-store copy: "absent", "good", "corrupt"
    s3,          \* TRUE iff the boto3 client was created (s3 is not None)
    cache0,      \* per URL: <<localIdx, s3Idx>> at the start (history)
    fetchCount,  \* per URL: number of get_article_text invocations
    badFetch,    \* per URL: number of fetches that did not end in a saved index
    concurrent,  \* per URL: no call for it was started after another one for it had returned (history)
    textLen      \* per call: len(text) of the body get_article_text returned, NoText before

cacheVars == <<callPc, callUrl, callRet, callProc, url_locks, localIdx, s3Idx, s3, cache0, fetchCount, badFetch, concurrent, textLen>>

VARIABLES
    \* ---- scoring helpers (core/lambdas.py) ----
    scoreEvidence,   \* the evidence list handed to the scoring helpers
    scorePc,         \* "start", "diversity" (diversity computed), "done"
    diversity_score, \* result of calculate_source_diversity_score, or -1
    confidence_score \* result of calculate_fact_check_confidence, or -1

scoreVars == <<scoreEvidence, scorePc, diversity_score, confidence_score>>

VARIABLES
    \* ---- process_claim_step (services/fact_checker.py, article_checker) ----
    faiss_partition_dirs, \* the loaded title partitions, by ordinal
    cPc,        \* "retrieve" (awaiting search_and_retrieve_docs_once), "judge" (awaiting a batch), "done"
    cPass,      \* the pass under way: "primary", "secondary", "overflow"
    cDocs,      \* candidates of the pass under way from the batch under way on: new_docs[i:]
    cBatch,     \* the loop index i: number of candidates before the batch under way
    cTasks,     \* per candidate of the batch: "pending", NoEvidence or the accepted evidence
    url_set,    \* URLs accepted so far for this claim
    validated,  \* accepted evidence of the pass under way
    naver,      \* (confidence, evidence) of the primary pass, or NotRun
    google,     \* (confidence, evidence) of the secondary-provider pass, or NotRun
    partition_9,\* (confidence, evidence) of the overflow pass, or NotRun
    chosen,     \* (confidence_score, validated_evidence) after the provider cascade, or NotRun
    retrievals, \* the calls of search_and_retrieve_docs_once made so far (history)
    acceptedAt, \* per evidence accepted in the last judged pass: its URL, the index of its
                \* candidate in the pass's list, its rank among the acceptances (history)
    cResult     \* what process_claim_step returned: a ClaimResult, "raised", or "none"

claimVars == <<faiss_partition_dirs, cPc, cPass, cDocs, cBatch, cTasks, url_set, validated,
               naver, google, partition_9, chosen, retrievals, acceptedAt, cResult>>

VARIABLES
    \* ---- run_fact_check / run_article_fact_check ----
    variant,         \* "video" (run_fact_check) or "article" (run_article_fact_check)
    rPc,             \* "source", "aux", "extract", "reduce", "claims", "classify", "done", "raised"
    claims_to_check, \* the reduced claim list, cut to MAX_CLAIMS_TO_FACT_CHECK
    taskPc,          \* per claim task: "queued" (on the semaphore), "running", "finished"
    claim_semaphore, \* free permits of the claim semaphore
    returned,        \* per claim task: what process_claim_step returned or raised (history)
    finished,        \* the claim tasks in the order they finished (history)
    gathered,        \* the result list of asyncio.gather while it is being filled
    outputs,         \* the claims array built from gathered
    avg_score,       \* the total confidence score, or -1
    reqResult,       \* what the request returned, or NoResponse
    invoked,         \* the chains and steps the request has started (history)
    failedStage,     \* the chain whose exception ended the request, or "" (history)
    status           \* the HTTP status the endpoint answered with, 0 before

reqVars == <<variant, rPc, claims_to_check, taskPc, claim_semaphore, returned, finished,
             gathered, outputs, avg_score, reqResult, invoked, failedStage, status>>

VARIABLES
    \* ---- title partitions: lifespan, watcher and a request in flight (main.py) ----
    s3Part,      \* per partition: version of its index objects in the bucket, 0 when it has none
    localPart,   \* per partition: its local directory: AbsentDir or the versions of its two files
    main_dirs,   \* the module-level list faiss_partition_dirs every request is handed
    seen,        \* the watcher's seen tags per prefix, 0 for none
    wStarted,    \* the lifespan start-up has run and the watcher task exists
    detected,    \* the (prefix, tag) changes the last watcher poll detected (history)
    inflight,    \* the request in flight: "none", "running", "finished"
    observed     \* per retrieval pass of the request: the partitions it loaded and what they held (history)

reloadVars == <<s3Part, localPart, main_dirs, seen, wStarted, detected, inflight, observed>>

VARIABLES
    \* ---- search_and_retrieve_docs_once (services/fact_checker.py) ----
    sDirs,          \* the argument faiss_partition_dirs: a list of partitions, by ordinal
    seen_urls,      \* the argument seen_urls
    PARTITION_STOP_HITS, \* the early-stop threshold read from the environment
    sPc,            \* "search", "embed", "title", "fallback_embed", "fallback", "materialize", "done"
    cse_titles,     \* number of titles the search provider returned (positions 1..n)
    cse_title_embs, \* number of title vectors _embed_docs_with_retry returned
    embed_calls,    \* number of embed_documents invocations (history)
    tIdx,           \* partitions the loop under way has taken from the sorted list
    stop,           \* the flag stop of the title-match stage
    article_urls,   \* the selected article URLs, in selection order
    matched_meta,   \* per selected URL: position of the title that matched it (0: the query),
                    \* distance of the neighbour and partition it came from
    chosen_for_cse, \* the title positions that have contributed a URL
    fallback,       \* the dict fallback: (url, dist) in insertion order
    visits,         \* the partitions loaded so far: stage, partition, outcome, URLs added (history)
    sDocs,          \* the list docs
    mIdx,           \* article URLs the materialization loop has taken
    sResult         \* what the call returned: NotYet, Docs(list) or DocsRaised

retrVars == <<sDirs, seen_urls, PARTITION_STOP_HITS, sPc, cse_titles, cse_title_embs,
              embed_calls, tIdx, stop, article_urls, matched_meta, chosen_for_cse, fallback,
              visits, sDocs, mIdx, sResult>>

VARIABLES
    \* ---- two runs of the pipeline on one input ----
    run,        \* 1 while the first run of the pipeline is in progress, 2 in the second
    firstRun,   \* NoFirstRun, or what the first run was given and what it returned
    now         \* the wall clock read by datetime.now()

runVars == <<run, firstRun, now>>

VARIABLES
    \* ---- the two polling watcher scripts (scripts/watch_s3_*.py) ----
    bucketTag,      \* per watched prefix: the change tag of its index objects, 0 when they are missing
    titleDir,       \* per watched prefix: its local partition directory, AbsentDir or its two files
    titles_state,   \* state of watch_s3_titles_preload: the tag recorded per prefix, 0 for none
    prewarm_state,  \* state of watch_s3_and_prewarm: the tag recorded per prefix, 0 for none
    triggered       \* the actions the watchers ran: watcher, prefix, tag, succeeded (history)

watchVars == <<bucketTag, titleDir, titles_state, prewarm_state, triggered>>

VARIABLES
    \* ---- clean_evidence_content on one evidence text ----
    content,    \* the text the function is called with, a sequence of tokens
    substance,  \* the substantive sentence the text was made of (history)
    cleaned     \* NotCleaned, or the text the function returned

cleanVars == <<content, substance, cleaned>>

vars == <<cacheVars, scoreVars, claimVars, reqVars, reloadVars, retrVars, runVars, watchVars, cleanVars>>

notCacheVars == <<scoreVars, claimVars, reqVars, reloadVars, retrVars, runVars, watchVars, cleanVars>>

notScoreVars == <<cacheVars, claimVars, reqVars, reloadVars, retrVars, runVars, watchVars, cleanVars>>

notClaimVars == <<cacheVars, scoreVars, reqVars, reloadVars, retrVars, runVars, watchVars, cleanVars>>

notReqVars == <<cacheVars, scoreVars, claimVars, reloadVars, retrVars, runVars, watchVars, cleanVars>>

notReloadVars == <<cacheVars, scoreVars, claimVars, reqVars, retrVars, runVars, watchVars, cleanVars>>

notRetrVars == <<cacheVars, scoreVars, claimVars, reqVars, reloadVars, runVars, watchVars, cleanVars>>

notReqRunVars == <<cacheVars, scoreVars, claimVars, reloadVars, retrVars, watchVars, cleanVars>>

notWatchVars == <<cacheVars, scoreVars, claimVars, reqVars, reloadVars, retrVars, runVars, cleanVars>>

notCleanVars == <<cacheVars, scoreVars, claimVars, reqVars, reloadVars, retrVars, runVars, watchVars>>

----------------------------------------------------------------------------
\* Generic helpers

Min(a, b) == IF a <= b THEN a ELSE b

Max(a, b) == IF a >= b THEN a ELSE b

Range(f) == {f[x] : x \in DOMAIN f}

NoRepeat(list) == \A i, j \in DOMAIN list : i # j => list[i] # list[j]

----------------------------------------------------------------------------
\* ensure_article_faiss

\* Number of concurrent calls of ensure_article_faiss in the model.
NumCalls == 3

Calls == 1..NumCalls

CacheUrls == {"u1", "u2"}

NoUrl == "none"

IdxStates == {"absent", "good", "corrupt"}

\* textLen of a call whose get_article_text has not returned.
NoText == -1

\* The processes that import services.fact_checker: the API server and the
\* prewarm_articles script; each has its own module-level dict url_locks.
Processes == {"server", "prewarm"}

LockKeys == Processes \X CacheUrls

IdleCache ==
    /\ callPc = [c \in Calls |-> "idle"]
    /\ callUrl = [c \in Calls |-> NoUrl]
    /\ callRet = [c \in Calls |-> "none"]
    /\ callProc = [c \in Calls |-> "server"]
    /\ url_locks = [k \in LockKeys |-> [locked |-> FALSE, waiters |-> <<>>]]
    /\ localIdx = [u \in CacheUrls |-> "absent"]
    /\ s3Idx = [u \in CacheUrls |-> "absent"]
    /\ s3 = TRUE
    /\ cache0 = [u \in CacheUrls |-> <<"absent", "absent">>]
    /\ fetchCount = [u \in CacheUrls |-> 0]
    /\ badFetch = [u \in CacheUrls |-> 0]
    /\ concurrent = [u \in CacheUrls |-> TRUE]
    /\ textLen = [c \in Calls |-> NoText]

IdleScore ==
    /\ scoreEvidence = <<>>
    /\ scorePc = "start"
    /\ diversity_score = -1
    /\ confidence_score = -1

\* A pass that did not run.
NotRun == [confidence |-> -1, evidence |-> <<>>]

\* factcheck_doc returned None, and a Judge call that has not returned yet.
NoEvidence == [url |-> "", relevance |-> "none"]

Pending == [url |-> "", relevance |-> "pending"]

\* process_claim_step has not returned yet, and it raised.
NoResult == [result |-> "none", confidence_score |-> -1, evidence |-> <<>>]

Raised == [result |-> "raised", confidence_score |-> -1, evidence |-> <<>>]

IdleClaim ==
    /\ faiss_partition_dirs = {}
    /\ cPc = "retrieve"
    /\ cPass = "primary"
    /\ cDocs = <<>>
    /\ cBatch = 0
    /\ cTasks = <<>>
    /\ url_set = {}
    /\ validated = <<>>
    /\ naver = NotRun
    /\ google = NotRun
    /\ partition_9 = NotRun
    /\ chosen = NotRun
    /\ retrievals = <<>>
    /\ acceptedAt = {}
    /\ cResult = NoResult

\* A claim task that has not finished, no exception, and no response yet.
NoException == [type |-> "", msg |-> "", repr |-> ""]

NotReturned == [raised |-> FALSE, exc |-> NoException, confidence |-> -1, evidence |-> <<>>]

NoSlot ==
    [claim |-> "", result |-> "pending", confidence_score |-> -1, evidence |-> <<>>,
     error |-> "", error_type |-> "", error_stage |-> "", exc |-> NoException]

\* The value of created_at in a response that carries no such key.
NoTimestamp == -1

NoResponse ==
    [error |-> "none", total |-> -1, claims |-> <<>>, complete |-> FALSE,
     created_at |-> NoTimestamp]

IdleRequest ==
    /\ variant = "video"
    /\ rPc = "source"
    /\ claims_to_check = <<>>
    /\ taskPc = <<>>
    /\ claim_semaphore = 0
    /\ returned = <<>>
    /\ finished = <<>>
    /\ gathered = <<>>
    /\ outputs = <<>>
    /\ avg_score = -1
    /\ reqResult = NoResponse
    /\ invoked = {}
    /\ failedStage = ""
    /\ status = 0

\* No first run has been recorded.
NoFirstRun == [claims |-> <<>>, returned |-> <<>>, finished |-> <<>>, result |-> NoResponse]

\* One run of the pipeline, no earlier run to compare it with.
IdleRuns ==
    /\ run = 1
    /\ firstRun = NoFirstRun
    /\ now = 0

\* Title partitions by the number in their directory name: the overflow
\* partition, partition 10 and the monthly partition of November 2026.
ReloadPartitions == {9, 10, 202611}

\* A local partition directory that does not exist.
AbsentDir == [faiss |-> -1, pkl |-> -1]

IdleReload ==
    /\ s3Part = [p \in ReloadPartitions |-> 0]
    /\ localPart = [p \in ReloadPartitions |-> AbsentDir]
    /\ main_dirs = <<>>
    /\ seen = [p \in ReloadPartitions |-> 0]
    /\ wStarted = FALSE
    /\ detected = {}
    /\ inflight = "none"
    /\ observed = <<>>

\* The prefixes the watcher scripts poll: the monthly partition and
\* partition_10, by the number in the directory name.
WatchedByScripts == {202611, 10}

IdleWatch ==
    /\ bucketTag = [p \in WatchedByScripts |-> 0]
    /\ titleDir = [p \in WatchedByScripts |-> AbsentDir]
    /\ titles_state = [p \in WatchedByScripts |-> 0]
    /\ prewarm_state = [p \in WatchedByScripts |-> 0]
    /\ triggered = {}

\* clean_evidence_content has not returned yet.
NotCleaned == <<"(not cleaned)">>

IdleClean ==
    /\ content = <<>>
    /\ substance = <<>>
    /\ cleaned = NotCleaned

\* search_and_retrieve_docs_once has not returned yet, returned a list, raised.
NotYet == [state |-> "none", docs |-> <<>>]

Docs(list) == [state |-> "returned", docs |-> list]

DocsRaised == [state |-> "raised", docs |-> <<>>]

IdleRetrieve ==
    /\ sDirs = <<>>
    /\ seen_urls = {}
    /\ PARTITION_STOP_HITS = 1
    /\ sPc = "search"
    /\ cse_titles = 0
    /\ cse_title_embs = 0
    /\ embed_calls = 0
    /\ tIdx = 0
    /\ stop = FALSE
    /\ article_urls = <<>>
    /\ matched_meta = <<>>
    /\ chosen_for_cse = {}
    /\ fallback = <<>>
    /\ visits = <<>>
    /\ sDocs = <<>>
    /\ mIdx = 0
    /\ sResult = NotYet

CacheStart ==
    /\ callPc = [c \in Calls |-> "idle"]
    /\ callUrl = [c \in Calls |-> NoUrl]
    /\ callRet = [c \in Calls |-> "none"]
    /\ callProc = [c \in Calls |-> "server"]
    /\ url_locks = [k \in LockKeys |-> [locked |-> FALSE, waiters |-> <<>>]]
    /\ localIdx \in [CacheUrls -> IdxStates]
    /\ s3Idx \in [CacheUrls -> IdxStates]
    /\ s3 \in BOOLEAN
    /\ cache0 = [u \in CacheUrls |-> <<localIdx[u], s3Idx[u]>>]
    /\ fetchCount = [u \in CacheUrls |-> 0]
    /\ badFetch = [u \in CacheUrls |-> 0]
    /\ concurrent = [u \in CacheUrls |-> TRUE]
    /\ textLen = [c \in Calls |-> NoText]

\* asyncio.Lock.acquire takes the lock at once only when it is unlocked and
\* nobody is queued on it. A lock freshly made by setdefault is such a lock.
LockFreeFresh(k) == TRUE

LockFree(k) == ~url_locks[k].locked /\ url_locks[k].waiters = <<>>

\* url_locks.setdefault(url, asyncio.Lock()) in the process of call c.
KeyOf(c, u) == <<callProc[c], u>>

\* Mutant: the lock stays held when the call that holds it ends.
KeptLocked(locks, k) == locks

\* asyncio.Lock.release: unlock; the first waiter is woken and takes the lock
\* when it next runs (WakeCall).
Released(locks, k) == [locks EXCEPT ![k].locked = FALSE]

\* The synchronous part of the locked section, lines 115-137: local check,
\* object-store download, each with its load. The result is the state of the
\* local directory and whether the call returns the loaded index (hit) or goes
\* on to fetch. dl tells whether download_from_s3 returned True.
AfterLocalCheckKept(u) == localIdx[u]

AfterLocalCheck(u) == IF localIdx[u] = "corrupt" THEN "absent" ELSE localIdx[u]

TierLookupNoLocal(u, dl) ==
    IF s3 /\ dl /\ s3Idx[u] = "good"
    THEN [hit |-> TRUE, loc |-> "good"]
    ELSE [hit |-> FALSE, loc |-> "absent"]

TierLookup(u, dl) ==
    IF localIdx[u] = "good"
    THEN [hit |-> TRUE, loc |-> "good"]
    ELSE IF s3 /\ dl /\ s3Idx[u] # "absent"
         THEN IF s3Idx[u] = "good"
              THEN [hit |-> TRUE, loc |-> "good"]
              ELSE [hit |-> FALSE, loc |-> "absent"]
         ELSE [hit |-> FALSE, loc |-> AfterLocalCheck(u)]

\* Call c holds the lock of u and runs up to its return or to the await of
\* get_article_text.
EnterSection(c, u, dl, locks) ==
    LET t == TierLookup(u, dl) IN
    /\ localIdx' = [localIdx EXCEPT ![u] = t.loc]
    /\ IF t.hit
       THEN /\ callPc' = [callPc EXCEPT ![c] = "done"]
            /\ callRet' = [callRet EXCEPT ![c] = "index"]
            /\ url_locks' = Released(locks, KeyOf(c, u))
            /\ UNCHANGED fetchCount
       ELSE /\ callPc' = [callPc EXCEPT ![c] = "fetch"]
            /\ callRet' = callRet
            /\ url_locks' = [locks EXCEPT ![KeyOf(c, u)].locked = TRUE]
            /\ fetchCount' = [fetchCount EXCEPT ![u] = @ + 1]
    /\ UNCHANGED <<callProc, s3Idx, s3, cache0, badFetch, textLen>>
    /\ UNCHANGED notCacheVars

\* ensure_article_faiss(u) is called: lines 113-114.
CallEnsure(c, u) ==
    /\ callPc[c] = "idle"
    /\ callUrl' = [callUrl EXCEPT ![c] = u]
    /\ concurrent' = [concurrent EXCEPT ![u] =
                         @ /\ \A d \in Calls : ~(callUrl[d] = u /\ callPc[d] = "done")]
    /\ IF LockFree(KeyOf(c, u))
       THEN \E dl \in BOOLEAN : EnterSection(c, u, dl, url_locks)
       ELSE /\ callPc' = [callPc EXCEPT ![c] = "wait"]
            /\ url_locks' = [url_locks EXCEPT ![KeyOf(c, u)].waiters = Append(@, c)]
            /\ UNCHANGED <<callProc, callRet, localIdx, s3Idx, s3, cache0, fetchCount, badFetch,
                           textLen>>
            /\ UNCHANGED notCacheVars

\* The first waiter of an unlocked lock is woken and enters the section.
WakeCall(c) ==
    /\ callPc[c] = "wait"
    /\ LET u == callUrl[c] IN
       /\ ~url_locks[KeyOf(c, u)].locked
       /\ url_locks[KeyOf(c, u)].waiters # <<>>
       /\ Head(url_locks[KeyOf(c, u)].waiters) = c
       /\ \E dl \in BOOLEAN :
            EnterSection(c, u, dl, [url_locks EXCEPT ![KeyOf(c, u)].waiters = Tail(@)])
    /\ UNCHANGED <<callUrl, concurrent>>

\* "if not text or len(text) < 200"
MIN_TEXT_LEN == 200

\* len(text) of the bodies get_article_text returns in the model: none, one
\* character short of the minimum, the minimum.
BodyLengths == {0, MIN_TEXT_LEN - 1, MIN_TEXT_LEN}

\* Mutant: only an empty body is turned down.
TooShortOnlyEmpty(n) == n = 0

\* not text or len(text) < 200
TooShort(n) == n = 0 \/ n < MIN_TEXT_LEN

\* The await of get_article_text ends with an exception (the function
\* catches Exception itself; a cancellation passes through): the exception
\* leaves the "async with" block.
FetchRaises(c) ==
    /\ callPc[c] = "fetch"
    /\ LET u == callUrl[c] IN
       /\ callPc' = [callPc EXCEPT ![c] = "done"]
       /\ callRet' = [callRet EXCEPT ![c] = "raised"]
       /\ url_locks' = Released(url_locks, KeyOf(c, u))
       /\ badFetch' = [badFetch EXCEPT ![u] = @ + 1]
    /\ UNCHANGED <<callUrl, callProc, localIdx, s3Idx, s3, cache0, fetchCount, concurrent,
                   textLen>>
    /\ UNCHANGED notCacheVars

\* upload_to_s3 uploads file by file and raises at the first failure: a failed
\* upload leaves the object store as it was or with part of the files.
UploadOutcomes(u) ==
    IF ~s3 THEN {s3Idx[u]} ELSE {"good", s3Idx[u], "corrupt"}

\* get_article_text returned a body of n characters: lines 138-153.  A body
\* that is empty or shorter than 200 characters ends the call with None.
\* Otherwise the index is built and saved, built = FALSE: FAISS.from_documents
\* or save_local raised, and then uploaded; a failed upload is logged.
FetchBody(c, n, built) ==
    /\ callPc[c] = "fetch"
    /\ LET u == callUrl[c] IN
       /\ callPc' = [callPc EXCEPT ![c] = "done"]
       /\ textLen' = [textLen EXCEPT ![c] = n]
       /\ url_locks' = Released(url_locks, KeyOf(c, u))
       /\ IF TooShort(n)
          THEN /\ built
               /\ callRet' = [callRet EXCEPT ![c] = "absent"]
               /\ badFetch' = [badFetch EXCEPT ![u] = @ + 1]
               /\ UNCHANGED <<localIdx, s3Idx>>
          ELSE IF built
          THEN /\ callRet' = [callRet EXCEPT ![c] = "index"]
               /\ localIdx' = [localIdx EXCEPT ![u] = "good"]
               /\ \E up \in UploadOutcomes(u) : s3Idx' = [s3Idx EXCEPT ![u] = up]
               /\ UNCHANGED badFetch
          ELSE /\ callRet' = [callRet EXCEPT ![c] = "raised"]
               /\ badFetch' = [badFetch EXCEPT ![u] = @ + 1]
               /\ UNCHANGED <<localIdx, s3Idx>>
    /\ UNCHANGED <<callUrl, callProc, s3, cache0, fetchCount, concurrent>>
    /\ UNCHANGED notCacheVars

NextCache ==
    \/ \E c \in Calls, u \in CacheUrls : CallEnsure(c, u)
    \/ \E c \in Calls : WakeCall(c)
    \/ \E c \in Calls : FetchRaises(c)
    \/ \E c \in Calls, n \in BodyLengths, built \in BOOLEAN : FetchBody(c, n, built)

InitCache == CacheStart /\ IdleScore /\ IdleClaim /\ IdleRequest /\ IdleReload /\ IdleRetrieve /\ IdleRuns /\ IdleWatch /\ IdleClean

SpecCache == InitCache /\ [][NextCache]_vars

\* The API server and a run of scripts/prewarm_articles.py (started by
\* watch_s3_and_prewarm as a subprocess) share the cache directory and the
\* bucket: the last call is made in the prewarm process.
PrewarmStart ==
    /\ callPc = [c \in Calls |-> "idle"]
    /\ callUrl = [c \in Calls |-> NoUrl]
    /\ callRet = [c \in Calls |-> "none"]
    /\ callProc = [c \in Calls |-> IF c = NumCalls THEN "prewarm" ELSE "server"]
    /\ url_locks = [k \in LockKeys |-> [locked |-> FALSE, waiters |-> <<>>]]
    /\ localIdx \in [CacheUrls -> IdxStates]
    /\ s3Idx \in [CacheUrls -> IdxStates]
    /\ s3 \in BOOLEAN
    /\ cache0 = [u \in CacheUrls |-> <<localIdx[u], s3Idx[u]>>]
    /\ fetchCount = [u \in CacheUrls |-> 0]
    /\ badFetch = [u \in CacheUrls |-> 0]
    /\ concurrent = [u \in CacheUrls |-> TRUE]
    /\ textLen = [c \in Calls |-> NoText]

InitPrewarm ==
    PrewarmStart /\ IdleScore /\ IdleClaim /\ IdleRequest /\ IdleReload /\ IdleRetrieve /\ IdleRuns /\ IdleWatch /\ IdleClean

SpecPrewarm == InitPrewarm /\ [][NextCache]_vars

CallsOf(u) == {c \in Calls : callUrl[c] = u}

InSection(c) == callPc[c] = "fetch"

\* All calls made so far for u have returned, there was at least one, they
\* overlapped, and u had no index locally or in the object store at the start.
ColdBurstDone(u) ==
    /\ CallsOf(u) # {}
    /\ \A c \in CallsOf(u) : callPc[c] = "done"
    /\ concurrent[u]
    /\ cache0[u] = <<"absent", "absent">>

\* C1: for every URL at most one call of ensure_article_faiss is inside the
\* locked materialization section; the calls waiting on a URL's lock are
\* exactly the other unfinished calls for that URL, and a lock is held only
\* by a call for its own URL, so calls for different URLs never block each
\* other.
C1_SingleFlightPerUrl ==
    /\ \A c, d \in Calls :
         (c # d /\ InSection(c) /\ InSection(d)) => callUrl[c] # callUrl[d]
    /\ \A u \in CacheUrls :
         /\ url_locks[<<"server", u>>].locked <=> \E c \in CallsOf(u) : InSection(c)
         /\ Range(url_locks[<<"server", u>>].waiters) = {c \in CallsOf(u) : callPc[c] = "wait"}

\* C1 witness: one call is in the section for u1 while another waits for it,
\* and a third call is in the section for u2 at the same time.
C1_Witness ==
    \E a, b, c \in Calls :
        /\ callUrl[a] = "u1" /\ InSection(a)
        /\ callUrl[b] = "u1" /\ callPc[b] = "wait"
        /\ callUrl[c] = "u2" /\ InSection(c)

C31_NeverRaises ==
    \A c \in Calls : callRet[c] # "raised"

\* C32: when get_article_text returns a body that is empty or shorter than
\* 200 characters, the call ends with absent, the URL's lock is released, and
\* the local cache directories and the object store are as they were before
\* the body arrived.
C32_ShortBodyReturnsAbsent ==
    [][\A c \in Calls :
          (callPc[c] = "fetch" /\ textLen'[c] \in 0..(MIN_TEXT_LEN - 1)) =>
              /\ callPc'[c] = "done"
              /\ callRet'[c] = "absent"
              /\ localIdx' = localIdx
              /\ s3Idx' = s3Idx
              /\ ~url_locks'[KeyOf(c, callUrl[c])].locked]_vars

\* C32 witness: a call got a body of 199 characters and returned absent, and
\* a call that had waited for the same URL is now fetching.
C32_Witness ==
    \E c, d \in Calls :
        /\ c # d
        /\ callUrl[c] = callUrl[d]
        /\ textLen[c] = MIN_TEXT_LEN - 1
        /\ callRet[c] = "absent"
        /\ InSection(d)
        /\ localIdx[callUrl[c]] = "absent"

FairCache ==
    \A c \in Calls :
        /\ WF_vars(WakeCall(c))
        /\ WF_vars(FetchRaises(c) \/ \E n \in BodyLengths, built \in BOOLEAN : FetchBody(c, n, built))

\* The calls start on a cache that holds no index that loads: every first
\* call for a URL goes through the locked section to the body fetch.
ColdCacheStart ==
    /\ CacheStart
    /\ \A u \in CacheUrls : localIdx[u] = "absent" /\ s3Idx[u] # "good"

InitCacheFair ==
    ColdCacheStart /\ IdleScore /\ IdleClaim /\ IdleRequest /\ IdleReload /\ IdleRetrieve /\ IdleRuns /\ IdleWatch /\ IdleClean

SpecCacheFair == InitCacheFair /\ [][NextCache]_vars /\ FairCache

\* C37: a URL's lock is held only while a call for that URL is inside the
\* locked section, however the previous holder ended, and every call waiting
\* for the lock acquires it and ends.
C37_LockReleasedWaitersProceed ==
    /\ [](\A u \in CacheUrls :
            url_locks[<<"server", u>>].locked => \E c \in CallsOf(u) : InSection(c))
    /\ \A c \in Calls : (callPc[c] = "wait") ~> (callPc[c] \in {"fetch", "done"})
    /\ \A c \in Calls : (callPc[c] = "wait") ~> (callPc[c] = "done")

\* C37 witness: the holder of a lock raised, and a call that had waited for
\* the same URL has returned an index.
C37_Witness ==
    \E c, d \in Calls :
        /\ c # d
        /\ callUrl[c] = callUrl[d]
        /\ callRet[c] = "raised"
        /\ textLen[d] = MIN_TEXT_LEN
        /\ callRet[d] = "index"
        /\ concurrent[callUrl[c]]
        /\ cache0[callUrl[c]] = <<"absent", "absent">>

----------------------------------------------------------------------------
\* Scoring helpers: calculate_source_diversity_score,
\* calculate_fact_check_confidence

\* Longest evidence list handed to the scoring helpers in SpecScore.
MaxScoreLen == 6

\* urlparse(url).netloc of the URLs of the model; a URL without a scheme has
\* no netloc.
Netloc(url) ==
    CASE url = "http://a/1" -> "a"
      [] url = "http://a/2" -> "a"
      [] url = "http://b/1" -> "b"
      [] url = "http://c/1" -> "c"
      [] url = "http://d/1" -> "d"
      [] url = "http://B/2" -> "B"
      [] OTHER -> ""

\* str.lower on the source names of the model.
Lower(str) == IF str = "B" THEN "b" ELSE str

\* The name an evidence item adds to the set of unique sources (lines
\* 523-535), "" when it adds none.
SourceOf(item) ==
    IF "source_title" \in DOMAIN item /\ item.source_title # ""
    THEN Lower(item.source_title)
    ELSE IF "url" \in DOMAIN item /\ item.url # ""
         THEN Lower(Netloc(item.url))
         ELSE ""

\* Mutant: the diversity score is the number of sources, at most 5.
DiversityBandLinear(n) == IF n >= 5 THEN 5 ELSE n

DiversityBand(n) ==
    IF n >= 4 THEN 5
    ELSE IF n = 3 THEN 4
    ELSE IF n = 2 THEN 3
    ELSE IF n = 1 THEN 1
    ELSE 0

calculate_source_diversity_score(evidence) ==
    IF evidence = <<>>
    THEN 0
    ELSE DiversityBand(Cardinality({SourceOf(evidence[i]) : i \in DOMAIN evidence} \ {""}))

\* Python's round() of the fraction n/d (n >= 0, d > 0): to the nearest
\* integer, halves to the even one.
RoundHalfEven(n, d) ==
    LET q == n \div d
        r == n % d
    IN  IF 2 * r < d THEN q
        ELSE IF 2 * r > d THEN q + 1
        ELSE IF q % 2 = 0 THEN q ELSE q + 1

RECURSIVE SumSeq(_)
SumSeq(xs) == IF xs = <<>> THEN 0 ELSE Head(xs) + SumSeq(Tail(xs))

\* Mutant: the count weighted 12 and the diversity 8.
calculate_fact_check_confidenceWeighted(criteria_scores) ==
    Max(0, Min(100, criteria_scores[1] * 8 + criteria_scores[2] * 12))

\* criteria_scores is the sequence of the dict's values.
calculate_fact_check_confidence(criteria_scores) ==
    IF criteria_scores = <<>>
    THEN 0
    ELSE IF \E i \in DOMAIN criteria_scores :
                ~(0 <= criteria_scores[i] /\ criteria_scores[i] <= 5)
         THEN 0
         ELSE LET total_possible == 5 * Len(criteria_scores)
                  total_actual == SumSeq(criteria_scores)
              IN  Max(0, Min(100, RoundHalfEven(total_actual * 100, total_possible)))

\* Mutant: a pass reports at least the minimum 10 that the request total uses
\* for a claim without evidence.
PassConfidenceFloored(evidence) ==
    Max(10, calculate_fact_check_confidence(
                <<calculate_source_diversity_score(evidence), Min(Len(evidence), 5)>>))

\* The two calls a pass of process_claim_step makes on its accepted evidence
\* (services/fact_checker.py lines 510-514).
PassConfidence(evidence) ==
    calculate_fact_check_confidence(
        <<calculate_source_diversity_score(evidence), Min(Len(evidence), 5)>>)

ScoreItems ==
    {[url |-> u] : u \in {"http://a/1", "http://a/2", "http://b/1", "http://c/1",
                          "http://B/2", "x/1"}}
    \cup {[url |-> "http://a/1", source_title |-> "d"]}

SeqsUpTo(S, n) == UNION {[1..k -> S] : k \in 0..n}

\* Accepted evidence lists hold each URL once, and items nowhere repeat.
ScoreStart ==
    /\ scoreEvidence \in {e \in SeqsUpTo(ScoreItems, MaxScoreLen) :
                             \A i, j \in DOMAIN e : i # j => e[i] # e[j]}
    /\ scorePc = "start"
    /\ diversity_score = -1
    /\ confidence_score = -1

ScoreDiversity ==
    /\ scorePc = "start"
    /\ diversity_score' = calculate_source_diversity_score(scoreEvidence)
    /\ scorePc' = "diversity"
    /\ UNCHANGED <<scoreEvidence, confidence_score>>
    /\ UNCHANGED notScoreVars

ScoreConfidence ==
    /\ scorePc = "diversity"
    /\ confidence_score' =
            calculate_fact_check_confidence(<<diversity_score, Min(Len(scoreEvidence), 5)>>)
    /\ scorePc' = "done"
    /\ UNCHANGED <<scoreEvidence, diversity_score>>
    /\ UNCHANGED notScoreVars

NextScore == ScoreDiversity \/ ScoreConfidence

DistinctSources(evidence) ==
    Cardinality({SourceOf(evidence[i]) : i \in DOMAIN evidence} \ {""})

\* C6 as stated: confidence = round(evidence_count*12 + source_diversity*8)
\* bounded to [0,100], evidence_count the clamped number of evidences and
\* source_diversity the band of the distinct-source count.
C6_ConfidenceWeighted12And8 ==
    scorePc = "done" =>
        confidence_score =
            Max(0, Min(100, Min(Len(scoreEvidence), 5) * 12
                            + DiversityBand(DistinctSources(scoreEvidence)) * 8))

\* C6 amended: confidence = round((evidence_count + source_diversity) / 10 * 100),
\* that is 10 * (evidence_count + source_diversity), in 0..100; 3 accepted
\* evidences from 3 distinct sources give 70.
C6_ConfidenceIsTenTimesSum ==
    scorePc = "done" =>
        /\ confidence_score =
               10 * (Min(Len(scoreEvidence), 5)
                     + DiversityBand(DistinctSources(scoreEvidence)))
        /\ confidence_score \in 0..100
        /\ (Len(scoreEvidence) = 3 /\ DistinctSources(scoreEvidence) = 3)
               => confidence_score = 70

\* C6 witness: three evidences from three distinct sources were scored.
C6_Witness ==
    /\ scorePc = "done"
    /\ Len(scoreEvidence) = 3
    /\ DistinctSources(scoreEvidence) = 3
    /\ confidence_score = 70

InitScore == IdleCache /\ ScoreStart /\ IdleClaim /\ IdleRequest /\ IdleReload /\ IdleRetrieve /\ IdleRuns /\ IdleWatch /\ IdleClean

SpecScore == InitScore /\ [][NextScore]_vars

----------------------------------------------------------------------------
\* process_claim_step

\* Judge calls of one batch (MAX_CONCURRENT_FACTCHECKS, default 7) and accepted
\* evidences per pass (MAX_EVIDENCES_PER_CLAIM, default 10) are read from the
\* environment; the model runs a small configuration.
MAX_CONCURRENT_FACTCHECKS == 2

MAX_EVIDENCES_PER_CLAIM == 4

\* Longest candidate list a retrieval returns in the model.
MaxDocs == 4

LOW_CONFIDENCE_THRESHOLD == 20

ClaimUrls == {"http://a/1", "http://a/2", "http://b/1", "http://B/2", "x/1"}

\* The candidate lists a retrieval may return: search_and_retrieve_docs_once
\* returns one document per selected URL and selects no URL twice.
RetrievedLists == {list \in SeqsUpTo(ClaimUrls, MaxDocs) : NoRepeat(list)}

\* Ordinals of the title partitions that may be loaded.
PartitionOrdinals == {9, 10, 19}

Passes == {"primary", "secondary", "overflow"}

\* The decimal digits of a partition ordinal contain the digit 9: what
\* '"9" in dir' tests on "article_faiss_cache/partition_<n>".
RECURSIVE HasDigit9(_)
HasDigit9(n) == (n % 10 = 9) \/ (n >= 10 /\ HasDigit9(n \div 10))

partition_9_dirs == {d \in faiss_partition_dirs : HasDigit9(d)}

\* What the Judge chain answers: a text with all three labels and the yes
\* word, one whose relevance line lacks the yes word, one that lacks one of
\* the labels, or an exception.
JudgeResponses ==
    {[raised |-> FALSE, relevance |-> "yes", fact_check_result |-> TRUE, justification |-> TRUE],
     [raised |-> FALSE, relevance |-> "no", fact_check_result |-> TRUE, justification |-> TRUE],
     [raised |-> FALSE, relevance |-> "none", fact_check_result |-> TRUE, justification |-> TRUE],
     [raised |-> FALSE, relevance |-> "yes", fact_check_result |-> FALSE, justification |-> TRUE],
     [raised |-> FALSE, relevance |-> "yes", fact_check_result |-> TRUE, justification |-> FALSE],
     [raised |-> TRUE, relevance |-> "none", fact_check_result |-> FALSE, justification |-> FALSE]}

\* The partition lists a claim is processed with: partition 10 alone, with
\* the overflow partition 9, or with partition 19.
ClaimPartitionSets == {{10}, {9, 10}, {10, 19}}

ClaimStart ==
    /\ faiss_partition_dirs \in ClaimPartitionSets
    /\ cPc = "retrieve"
    /\ cPass = "primary"
    /\ cDocs = <<>>
    /\ cBatch = 0
    /\ cTasks = <<>>
    /\ url_set = {}
    /\ validated = <<>>
    /\ naver = NotRun
    /\ google = NotRun
    /\ partition_9 = NotRun
    /\ chosen = NotRun
    /\ retrievals = <<>>
    /\ acceptedAt = {}
    /\ cResult = NoResult

Scored(confidence, evidence) == [confidence |-> confidence, evidence |-> evidence]

\* Mutant: a candidate is accepted whether or not its URL was accepted before.
factcheck_docNoUrlSet(url, response, urlset) ==
    IF /\ ~response.raised
       /\ response.relevance = "yes"
       /\ response.fact_check_result
       /\ response.justification
       /\ url # ""
    THEN [url |-> url, relevance |-> "yes"]
    ELSE NoEvidence

\* Mutant: the yes word on the relevance line is enough, whatever other labels
\* the response carries.
factcheck_docAnyLabels(url, response, urlset) ==
    IF /\ ~response.raised
       /\ response.relevance = "yes"
       /\ url # ""
       /\ url \notin urlset
    THEN [url |-> url, relevance |-> "yes"]
    ELSE NoEvidence

\* factcheck_doc after its await: the evidence dict or None.
factcheck_doc(url, response, urlset) ==
    IF /\ ~response.raised
       /\ response.relevance = "yes"
       /\ response.fact_check_result
       /\ response.justification
       /\ url # ""
       /\ url \notin urlset
    THEN [url |-> url, relevance |-> "yes"]
    ELSE NoEvidence

\* The loop over the gathered results of a batch: append what was accepted,
\* stop at MAX_EVIDENCES_PER_CLAIM.
RECURSIVE AppendAccepted(_, _)
AppendAccepted(evidence, results) ==
    IF results = <<>> THEN evidence
    ELSE IF Head(results) = NoEvidence
         THEN AppendAccepted(evidence, Tail(results))
         ELSE IF Len(evidence) + 1 >= MAX_EVIDENCES_PER_CLAIM
              THEN Append(evidence, Head(results))
              ELSE AppendAccepted(Append(evidence, Head(results)), Tail(results))

\* The rank of an accepted URL among the acceptances of its pass.
SeqOf(url) == (CHOOSE r \in acceptedAt : r.url = url).seq

RECURSIVE SortBySeq(_)
SortBySeq(results) ==
    IF results = {} THEN <<>>
    ELSE LET first == CHOOSE x \in results : \A y \in results : SeqOf(x.url) <= SeqOf(y.url)
         IN  <<first>> \o SortBySeq(results \ {first})

\* Mutant: the accepted results of a batch in the order the Judge calls returned.
BatchResultsAsCompleted(tasks) == SortBySeq(Range(tasks) \ {NoEvidence, Pending})

\* asyncio.gather(*factcheck_tasks) returns the results in the order of the
\* batch, whatever the order in which the calls returned.
BatchResults(tasks) == tasks

FirstN(xs, n) == SubSeq(xs, 1, Min(n, Len(xs)))

\* Mutant: likely_true only above the low-confidence threshold.
ClaimResultByThreshold(confidence, evidence) ==
    [result |-> IF confidence > 20 THEN "likely_true" ELSE "insufficient_evidence",
     confidence_score |-> confidence,
     evidence |-> FirstN(evidence, 3)]

\* The dict process_claim_step returns.
ClaimResult(confidence, evidence) ==
    [result |-> IF evidence # <<>> THEN "likely_true" ELSE "insufficient_evidence",
     confidence_score |-> confidence,
     evidence |-> FirstN(evidence, 3)]

PendingTasks(n) == [k \in 1..Min(n, MAX_CONCURRENT_FACTCHECKS) |-> Pending]

\* Mutant: the later pass also replaces the current best on a tie.
BetterOrEqual(current, later) ==
    IF later.evidence # <<>> /\ later.confidence >= current.confidence
    THEN later ELSE current

\* Mutant: the later pass adds its evidence to the current best.
BetterMerged(current, later) ==
    IF later.evidence # <<>> /\ later.confidence > current.confidence
    THEN [confidence |-> later.confidence, evidence |-> current.evidence \o later.evidence]
    ELSE current

\* The pass that selects between two scored passes: the later one only when
\* its confidence is strictly greater.
Better(current, later) ==
    IF later.evidence # <<>> /\ later.confidence > current.confidence
    THEN later ELSE current

\* process_claim_step returns (lines 626-634).
Finish(best) ==
    /\ cPc' = "done"
    /\ cResult' = ClaimResult(best.confidence, best.evidence)
    /\ cDocs' = <<>> /\ cBatch' = 0 /\ cTasks' = <<>> /\ validated' = <<>>
    /\ UNCHANGED <<cPass, retrievals>>

CallRetrieval(pass, dirs, cse) ==
    /\ cPc' = "retrieve"
    /\ cPass' = pass
    /\ retrievals' = Append(retrievals,
                            [pass |-> pass, dirs |-> dirs, use_google_cse |-> cse,
                             seen_urls |-> {}])
    /\ cDocs' = <<>> /\ cBatch' = 0 /\ cTasks' = <<>> /\ validated' = <<>>
    /\ UNCHANGED cResult

\* Mutant: the overflow pass is entered without any accepted evidence.
OverflowWantedWithoutEvidence(best) ==
    /\ best.confidence <= LOW_CONFIDENCE_THRESHOLD
    /\ partition_9_dirs # {}

\* Lines 568-584: after the provider cascade, the overflow pass is entered
\* when the chosen confidence is low, some evidence was accepted and some
\* partition directory contains "9".
OverflowWanted(best) ==
    /\ best.confidence <= LOW_CONFIDENCE_THRESHOLD
    /\ Len(best.evidence) > 0
    /\ partition_9_dirs # {}

AfterProviderCascade(best) ==
    /\ chosen' = best
    /\ IF OverflowWanted(best)
       THEN CallRetrieval("overflow", partition_9_dirs, FALSE)
       ELSE Finish(best)

\* Lines 518-526: the secondary provider is tried when the primary confidence
\* is low.
SecondaryWanted(primary) == primary.confidence <= LOW_CONFIDENCE_THRESHOLD

\* A pass ended with the accepted evidence ev: lines 509-566 for the primary
\* pass, 545-566 for the secondary, 603-624 for the overflow pass.
EndPass(ev) ==
    LET scored == Scored(PassConfidence(ev), ev) IN
    CASE cPass = "primary" ->
            /\ naver' = scored
            /\ UNCHANGED <<google, partition_9>>
            /\ IF SecondaryWanted(scored)
               THEN CallRetrieval("secondary", faiss_partition_dirs, TRUE)
                    /\ UNCHANGED chosen
               ELSE AfterProviderCascade(scored)
      [] cPass = "secondary" ->
            /\ google' = scored
            /\ UNCHANGED <<naver, partition_9>>
            /\ AfterProviderCascade(Better(naver, scored))
      [] cPass = "overflow" ->
            /\ partition_9' = scored
            /\ UNCHANGED <<naver, google, chosen>>
            /\ Finish(Better(chosen, scored))

\* The first call of search_and_retrieve_docs_once (line 487).
StartClaim ==
    /\ cPc = "retrieve"
    /\ retrievals = <<>>
    /\ CallRetrieval("primary", faiss_partition_dirs, FALSE)
    /\ UNCHANGED <<faiss_partition_dirs, url_set, naver, google, partition_9, chosen>>
    /\ UNCHANGED acceptedAt
    /\ UNCHANGED notClaimVars

\* search_and_retrieve_docs_once returns no candidate. In the primary pass
\* process_claim_step returns at once (lines 488-493).
RetrieveNothing ==
    /\ cPc = "retrieve"
    /\ retrievals # <<>>
    /\ CASE cPass = "primary" ->
               /\ cPc' = "done"
               /\ cResult' = [result |-> "insufficient_evidence",
                              confidence_score |-> 0, evidence |-> <<>>]
               /\ UNCHANGED <<cPass, cDocs, cBatch, cTasks, validated, retrievals,
                              naver, google, partition_9, chosen>>
         [] cPass = "secondary" ->
               /\ google' = Scored(0, <<>>)
               /\ UNCHANGED <<naver, partition_9>>
               /\ AfterProviderCascade(naver)
         [] cPass = "overflow" ->
               /\ partition_9' = Scored(0, <<>>)
               /\ UNCHANGED <<naver, google, chosen>>
               /\ Finish(chosen)
    /\ UNCHANGED <<faiss_partition_dirs, url_set>>
    /\ acceptedAt' = {}
    /\ UNCHANGED notClaimVars

\* search_and_retrieve_docs_once returns candidates: the first batch of Judge
\* calls is started.
RetrieveDocs(docs) ==
    /\ cPc = "retrieve"
    /\ retrievals # <<>>
    /\ docs # <<>>
    /\ cPc' = "judge"
    /\ cDocs' = docs
    /\ cBatch' = 0
    /\ cTasks' = PendingTasks(Len(docs))
    /\ validated' = <<>>
    /\ UNCHANGED <<faiss_partition_dirs, cPass, url_set, naver, google, partition_9,
                   chosen, retrievals, cResult>>
    /\ acceptedAt' = {}
    /\ UNCHANGED notClaimVars

\* search_and_retrieve_docs_once raises (a search provider error, an index
\* build error): the exception leaves process_claim_step.
RetrieveRaises ==
    /\ cPc = "retrieve"
    /\ retrievals # <<>>
    /\ cPc' = "done"
    /\ cResult' = Raised
    /\ UNCHANGED <<faiss_partition_dirs, cPass, cDocs, cBatch, cTasks, url_set, validated,
                   naver, google, partition_9, chosen, retrievals>>
    /\ acceptedAt' = {}
    /\ UNCHANGED notClaimVars

\* The Judge call of candidate k of the batch returns; factcheck_doc runs to
\* its end without another await.
JudgeReturns(k, response) ==
    /\ cPc = "judge"
    /\ k \in DOMAIN cTasks
    /\ cTasks[k] = Pending
    /\ LET res == factcheck_doc(cDocs[k], response, url_set) IN
       /\ cTasks' = [cTasks EXCEPT ![k] = res]
       /\ url_set' = IF res = NoEvidence THEN url_set ELSE url_set \cup {res.url}
       /\ acceptedAt' = IF res = NoEvidence THEN acceptedAt
                        ELSE acceptedAt \cup {[url |-> res.url, index |-> cBatch + k,
                                                seq |-> Cardinality(acceptedAt) + 1]}
    /\ UNCHANGED <<faiss_partition_dirs, cPc, cPass, cDocs, cBatch, validated,
                   naver, google, partition_9, chosen, retrievals, cResult>>
    /\ UNCHANGED notClaimVars

\* asyncio.gather of the batch returns its results in batch order; the next
\* batch is started or the pass ends.
GatherBatch ==
    /\ cPc = "judge"
    /\ \A k \in DOMAIN cTasks : cTasks[k] # Pending
    /\ LET ev == AppendAccepted(validated, BatchResults(cTasks))
           rest == SubSeq(cDocs, MAX_CONCURRENT_FACTCHECKS + 1, Len(cDocs))
       IN  IF rest # <<>> /\ Len(ev) < MAX_EVIDENCES_PER_CLAIM
           THEN /\ validated' = ev
                /\ cBatch' = cBatch + MAX_CONCURRENT_FACTCHECKS
                /\ cDocs' = rest
                /\ cTasks' = PendingTasks(Len(rest))
                /\ UNCHANGED <<cPc, cPass, naver, google, partition_9, chosen,
                               retrievals, cResult>>
           ELSE EndPass(ev)
    /\ UNCHANGED <<faiss_partition_dirs, url_set>>
    /\ UNCHANGED acceptedAt
    /\ UNCHANGED notClaimVars

NextClaim ==
    \/ StartClaim
    \/ RetrieveNothing
    \/ \E docs \in RetrievedLists : RetrieveDocs(docs)
    \/ RetrieveRaises
    \/ \E k \in 1..MAX_CONCURRENT_FACTCHECKS, response \in JudgeResponses :
          JudgeReturns(k, response)
    \/ GatherBatch

InitClaim == IdleCache /\ IdleScore /\ ClaimStart /\ IdleRequest /\ IdleReload /\ IdleRetrieve /\ IdleRuns /\ IdleWatch /\ IdleClean

SpecClaim == InitClaim /\ [][NextClaim]_vars

Ran(pass) == \E i \in DOMAIN retrievals : retrievals[i].pass = pass

NoUrlTwice(evidence) ==
    \A i, j \in DOMAIN evidence : i # j => evidence[i].url # evidence[j].url

UrlsOf(evidence) == {evidence[i].url : i \in DOMAIN evidence}

\* C5: in every pass and in the returned ClaimResult, whatever the order in
\* which the Judge calls of a batch return, each URL appears at most once in
\* the accepted evidence list, and no URL is accepted in two passes.
C5_EvidenceUrlsUnique ==
    /\ NoUrlTwice(validated)
    /\ NoUrlTwice(naver.evidence)
    /\ NoUrlTwice(google.evidence)
    /\ NoUrlTwice(partition_9.evidence)
    /\ NoUrlTwice(chosen.evidence)
    /\ NoUrlTwice(cResult.evidence)
    /\ NoUrlTwice(AppendAccepted(validated, SelectSeq(cTasks, LAMBDA t : t # Pending)))
    /\ UrlsOf(naver.evidence) \cap UrlsOf(google.evidence) = {}
    /\ UrlsOf(naver.evidence) \cap UrlsOf(partition_9.evidence) = {}
    /\ UrlsOf(google.evidence) \cap UrlsOf(partition_9.evidence) = {}
    /\ cPass # "primary" =>
          UrlsOf(naver.evidence) \cap
             UrlsOf(AppendAccepted(validated, SelectSeq(cTasks, LAMBDA t : t # Pending))) = {}

\* C5 witness: the secondary pass was handed a candidate with the URL of the
\* evidence accepted in the primary pass; that candidate was not accepted and
\* another one of its batch was.
C5_Witness ==
    /\ cPc = "judge"
    /\ cPass = "secondary"
    /\ \E k1, k2 \in DOMAIN cTasks :
            /\ k1 > k2
            /\ cDocs[k2] \in UrlsOf(naver.evidence)
            /\ cTasks[k1].relevance = "yes"
            /\ cTasks[k2] = NoEvidence

\* The primary pass is over: it was scored, or its retrieval returned no
\* candidate and process_claim_step returned.
PrimaryOver == naver # NotRun \/ (cPc = "done" /\ cResult # Raised)

PrimaryConfidence == IF naver = NotRun THEN 0 ELSE naver.confidence

SecondaryRan ==
    \E i \in DOMAIN retrievals :
        retrievals[i].pass = "secondary" /\ retrievals[i].use_google_cse

\* C8: the secondary-provider retrieval is performed if and only if the
\* primary pass's confidence is at most 20, also when the primary retrieval
\* returned no candidate.
C8_SecondaryIffPrimaryLow ==
    PrimaryOver => (SecondaryRan <=> PrimaryConfidence <= LOW_CONFIDENCE_THRESHOLD)

\* C9: once the secondary-provider pass has run, the selected (confidence,
\* evidence) is the secondary pass's pair when its confidence is strictly
\* greater than the primary's and the primary's pair otherwise; primary 10 and
\* secondary 30 select 30 with the secondary evidence.
C9_SecondarySelectedIffStrictlyGreater ==
    (google # NotRun /\ chosen # NotRun) =>
        /\ chosen = IF google.confidence > naver.confidence THEN google ELSE naver
        /\ (naver.confidence = 10 /\ google.confidence = 30)
              => (chosen.confidence = 30 /\ chosen.evidence = google.evidence)

\* C9 witness: primary confidence 10, secondary confidence 30, secondary selected.
C9_Witness ==
    /\ naver.confidence = 10
    /\ google.confidence = 30
    /\ chosen = google
    /\ chosen.evidence # naver.evidence

\* The provider cascade is over and process_claim_step went on to line 568.
CascadeOver == chosen # NotRun

\* C10 as stated: the overflow pass runs if and only if the chosen
\* confidence is at most 20 and some evidence was accepted.
C10_OverflowIffLowWithEvidence ==
    CascadeOver =>
        (Ran("overflow") <=>
            (chosen.confidence <= LOW_CONFIDENCE_THRESHOLD /\ Len(chosen.evidence) > 0))

\* C10 amended: the overflow pass runs if and only if the chosen confidence
\* is at most 20, some evidence was accepted and some loaded partition
\* directory contains the digit 9; its pair replaces the current best only
\* when its confidence is strictly greater.
C10_OverflowIffLowWithEvidenceAndPartition9 ==
    CascadeOver =>
        /\ Ran("overflow") <=>
              /\ chosen.confidence <= LOW_CONFIDENCE_THRESHOLD
              /\ Len(chosen.evidence) > 0
              /\ \E d \in faiss_partition_dirs : HasDigit9(d)
        /\ (cPc = "done" /\ cResult # Raised) =>
              LET best == IF partition_9.confidence > chosen.confidence
                          THEN partition_9 ELSE chosen
              IN  /\ cResult.confidence_score = best.confidence
                  /\ cResult.evidence = FirstN(best.evidence, 3)

\* C10 witness: primary and secondary passes stayed at or below the
\* threshold, the overflow pass scored higher and its pair is returned.
C10_Witness ==
    /\ cPc = "done"
    /\ naver # NotRun /\ naver.confidence <= LOW_CONFIDENCE_THRESHOLD
    /\ google # NotRun /\ google.confidence <= LOW_CONFIDENCE_THRESHOLD
    /\ Ran("overflow")
    /\ partition_9.confidence > chosen.confidence
    /\ cResult.confidence_score = partition_9.confidence
    /\ cResult.evidence = FirstN(partition_9.evidence, 3)

AllSourced(evidence) == \A i \in DOMAIN evidence : SourceOf(evidence[i]) # ""

\* The primary pass accepted 1 evidence from 1 source and the secondary pass
\* 3 evidences from 2 distinct sources.
OneThenThreeFromTwo ==
    /\ naver # NotRun /\ google # NotRun
    /\ Len(naver.evidence) = 1 /\ DistinctSources(naver.evidence) = 1
    /\ Len(google.evidence) = 3 /\ DistinctSources(google.evidence) = 2
    /\ AllSourced(google.evidence)

Returned == cPc = "done" /\ cResult # Raised

\* C11 as stated: with 1 primary evidence from 1 source and 3 secondary
\* evidences from 2 sources, the primary confidence is 12, the secondary 44,
\* and the ClaimResult has confidence 44 with the secondary evidence list.
C11_PrimaryTwelveSecondaryFortyFour ==
    OneThenThreeFromTwo =>
        /\ naver.confidence = 12
        /\ google.confidence = 44
        /\ Returned => (cResult.confidence_score = 44 /\ cResult.evidence = google.evidence)

\* C11 amended: with 1 primary evidence from 1 source and 3 secondary
\* evidences from 2 sources, the primary confidence is 20, the secondary 60,
\* and the ClaimResult has confidence 60 with the secondary evidence list.
C11_PrimaryTwentySecondarySixty ==
    OneThenThreeFromTwo =>
        /\ naver.confidence = 20
        /\ google.confidence = 60
        /\ Returned => (cResult.confidence_score = 60 /\ cResult.evidence = google.evidence)

\* C11 witness: the claim was answered from such a secondary pass.
C11_Witness ==
    /\ OneThenThreeFromTwo
    /\ Returned
    /\ cResult.result = "likely_true"
    /\ cResult.confidence_score = 60
    /\ Len(cResult.evidence) = 3
    /\ ~Ran("overflow")

\* C29: the secondary-provider retrieval returns no candidate with a URL
\* that the primary retrieval returned as a candidate; the URLs accepted in
\* the primary pass were candidates of the primary retrieval.
C29_SecondaryCandidatesAreNew ==
    (cPass = "secondary" /\ cPc = "judge") =>
        \A k \in DOMAIN cDocs : cDocs[k] \notin UrlsOf(naver.evidence)

\* C30: the overflow pass searches exactly one partition, the one with
\* ordinal 9, whatever partitions are loaded.
C30_OverflowSearchesPartitionNineOnly ==
    \A i \in DOMAIN retrievals :
        retrievals[i].pass = "overflow" => retrievals[i].dirs = {9}

\* What a returning Judge call leaves alone when its candidate is turned
\* down: the other candidates of the batch, the accepted URLs, the claim.
JudgeStepFrame(k) ==
    /\ \A j \in DOMAIN cTasks \ {k} : cTasks'[j] = cTasks[j]
    /\ cTasks'[k] # NoEvidence => cTasks'[k].url = cDocs[k]
    /\ cTasks'[k] = NoEvidence => url_set' = url_set
    /\ cPc' = "judge"
    /\ cResult' = cResult

\* C34: a candidate becomes evidence if and only if its Judge response carries
\* the relevance, fact-description and justification labels, its relevance
\* line has the yes word, and its URL has not yet been accepted for this
\* claim; a response that lacks a label and a Judge call that raises yield no
\* evidence for that candidate, leave the claim running and leave the results
\* of the other candidates of the batch as they are.
C34_EvidenceIffThreeLabelsYesNewUrl ==
    [][\A k \in 1..MAX_CONCURRENT_FACTCHECKS, response \in JudgeResponses :
          JudgeReturns(k, response) =>
              /\ (cTasks'[k] # NoEvidence) <=>
                    /\ ~response.raised
                    /\ response.relevance = "yes"
                    /\ response.fact_check_result
                    /\ response.justification
                    /\ cDocs[k] \notin url_set
              /\ JudgeStepFrame(k)]_vars

\* C34 as stated: the relevance and justification labels with relevance = yes
\* and a URL not yet accepted make a candidate evidence.
C34_EvidenceIffRelevanceAndJustification ==
    [][\A k \in 1..MAX_CONCURRENT_FACTCHECKS, response \in JudgeResponses :
          JudgeReturns(k, response) =>
              /\ (cTasks'[k] # NoEvidence) <=>
                    /\ ~response.raised
                    /\ response.relevance = "yes"
                    /\ response.justification
                    /\ cDocs[k] \notin url_set
              /\ JudgeStepFrame(k)]_vars

\* C34 witness: in a batch of the secondary pass the first candidate, whose
\* URL the primary pass had accepted, was turned down and the second was
\* accepted.
C34_Witness ==
    /\ cPc = "judge"
    /\ cPass = "secondary"
    /\ Len(cTasks) = 2
    /\ cDocs[1] \in UrlsOf(naver.evidence)
    /\ cTasks[1] = NoEvidence
    /\ cTasks[2] \notin {NoEvidence, Pending}

\* C38: in a ClaimResult that is not error-tagged the confidence is 0 exactly
\* when the result is insufficient_evidence, which is exactly when the
\* evidence array is empty; a likely_true result has confidence at least 10.
C38_ZeroIffInsufficientIffEmpty ==
    Returned =>
        /\ cResult.confidence_score = 0 <=> cResult.result = "insufficient_evidence"
        /\ cResult.result = "insufficient_evidence" <=> cResult.evidence = <<>>
        /\ cResult.result = "likely_true" => cResult.confidence_score >= 10

\* C38 witness: the primary and the secondary pass judged candidates and
\* every one was turned down.
C38_Witness ==
    /\ Returned
    /\ naver = Scored(0, <<>>)
    /\ google = Scored(0, <<>>)
    /\ Len(retrievals) = 2
    /\ url_set = {}
    /\ cResult.confidence_score = 0
    /\ cResult.result = "insufficient_evidence"

\* The scored passes of the claim.
ScoredPasses == {naver, google, partition_9} \ {NotRun}

\* C39: the confidence and the evidence of a returned ClaimResult come from
\* one and the same pass that ran (the evidence is that pass's list, cut to
\* three), that pass has the greatest confidence of the passes that ran, and
\* the confidence is not below the primary pass's.
C39_PairOfOnePassWithMaxConfidence ==
    (Returned /\ ScoredPasses # {}) =>
        /\ \E p \in ScoredPasses :
              /\ cResult.confidence_score = p.confidence
              /\ cResult.evidence = FirstN(p.evidence, 3)
              /\ \A q \in ScoredPasses : q.confidence <= p.confidence
        /\ cResult.confidence_score >= naver.confidence

\* C39 witness: three passes ran, the overflow pass scored highest and its
\* evidence, which shares no URL with the other passes', is returned.
C39_Witness ==
    /\ Returned
    /\ naver.evidence # <<>>
    /\ google.evidence # <<>>
    /\ partition_9.confidence > google.confidence
    /\ google.confidence > naver.confidence
    /\ cResult.evidence = FirstN(partition_9.evidence, 3)
    /\ cResult.confidence_score = partition_9.confidence

\* final_evidence: the accepted evidence of the pass process_claim_step
\* settled on.
SelectedEvidence ==
    IF chosen = NotRun THEN <<>>
    ELSE IF partition_9.confidence > chosen.confidence THEN partition_9.evidence
    ELSE chosen.evidence

\* C16: a ClaimResult that is not error-tagged has result likely_true if and
\* only if the accepted evidence list of the selected pass is non-empty, and
\* insufficient_evidence otherwise.
C16_LikelyTrueIffEvidence ==
    Returned =>
        /\ cResult.result \in {"likely_true", "insufficient_evidence"}
        /\ cResult.result = "likely_true" <=> SelectedEvidence # <<>>
        /\ cResult.result = "likely_true" <=> cResult.evidence # <<>>

\* C16 witness: the primary pass accepted nothing, the secondary pass one
\* evidence, and the claim is likely_true at confidence 20.
C16_Witness ==
    /\ Returned
    /\ naver # NotRun /\ naver.evidence = <<>>
    /\ Len(google.evidence) = 1
    /\ cResult.result = "likely_true"
    /\ cResult.confidence_score = 20

Recorded(url) == \E r \in acceptedAt : r.url = url

IndexOf(url) == (CHOOSE r \in acceptedAt : r.url = url).index

\* The evidences of the list that were accepted in the last judged pass are
\* in the order of their candidates.
InCandidateOrder(evidence) ==
    \A i, j \in DOMAIN evidence :
        (i < j /\ Recorded(evidence[i].url) /\ Recorded(evidence[j].url))
            => IndexOf(evidence[i].url) < IndexOf(evidence[j].url)

\* C17: the evidence array of a ClaimResult has at most 3 entries, the first
\* min(3, m) of the m accepted evidences of the selected pass, and accepted
\* evidences are in the order of their candidates, not in the order in which
\* the Judge calls returned.
C17_FirstThreeInCandidateOrder ==
    /\ InCandidateOrder(validated)
    /\ InCandidateOrder(naver.evidence)
    /\ InCandidateOrder(google.evidence)
    /\ InCandidateOrder(partition_9.evidence)
    /\ Returned =>
          /\ Len(cResult.evidence) <= 3
          /\ cResult.evidence = FirstN(SelectedEvidence, 3)
          /\ InCandidateOrder(cResult.evidence)

\* C17 witness: four evidences were accepted in one pass, a later candidate's
\* Judge call returned before an earlier one's, and the first three in
\* candidate order are returned.
C17_Witness ==
    /\ Returned
    /\ Len(SelectedEvidence) = 4
    /\ Len(cResult.evidence) = 3
    /\ \A i \in DOMAIN SelectedEvidence : Recorded(SelectedEvidence[i].url)
    /\ SeqOf(cResult.evidence[1].url) > SeqOf(cResult.evidence[2].url)
    /\ IndexOf(cResult.evidence[1].url) < IndexOf(cResult.evidence[2].url)

----------------------------------------------------------------------------
\* run_fact_check and run_article_fact_check

\* MAX_CONCURRENT_CLAIMS (default 3) is read from the environment and
\* MAX_CLAIMS_TO_FACT_CHECK is 10; the model runs a small configuration.
MAX_CONCURRENT_CLAIMS == 2

MAX_CLAIMS_TO_FACT_CHECK == 3

\* Longest list the claim reducer returns in the model.
MaxReduced == 4

ClaimTexts == {"k1", "k2"}

ReducedLists == SeqsUpTo(ClaimTexts, MaxReduced)

\* The dict factcheck_doc returns for an accepted candidate; the snippet is
\* carried by whether clean_evidence_content has rewritten it.
EvidenceItem(url) == [url |-> url, relevance |-> "yes", snippet |-> "raw"]

\* Evidence lists of the pass process_claim_step settles on: none, one, two
\* of one source, two of two sources, four of three sources.
RequestEvidence ==
    {<<>>,
     <<EvidenceItem("http://a/1")>>,
     <<EvidenceItem("http://a/1"), EvidenceItem("http://a/2")>>,
     <<EvidenceItem("http://a/1"), EvidenceItem("http://b/1")>>,
     <<EvidenceItem("http://a/1"), EvidenceItem("http://a/2"),
       EvidenceItem("http://b/1"), EvidenceItem("http://c/1")>>}

\* Exceptions process_claim_step lets escape, one with an empty str().
Exceptions ==
    {[type |-> "RuntimeError", msg |-> "boom", repr |-> "RuntimeError('boom')"],
     [type |-> "TimeoutError", msg |-> "", repr |-> "TimeoutError()"]}

clean_evidence_json(evidence_list) ==
    [i \in DOMAIN evidence_list |-> [evidence_list[i] EXCEPT !.snippet = "cleaned"]]

\* What process_claim_step returns for the evidence of the pass it settled
\* on; only run_fact_check cleans the evidence.
ProcessResult(v, claim, evidence) ==
    LET r == ClaimResult(PassConfidence(evidence), evidence)
    IN  [claim |-> claim,
         result |-> r.result,
         confidence_score |-> r.confidence_score,
         evidence |-> IF v = "video" THEN clean_evidence_json(r.evidence) ELSE r.evidence,
         error |-> "", error_type |-> "", error_stage |-> "", exc |-> NoException]

\* An exception object in the list asyncio.gather returns.
ExceptionSlot(e) == [NoSlot EXCEPT !.result = "exception", !.exc = e]

\* str(result) or repr(result) or err_type
ErrMsg(e) == IF e.msg # "" THEN e.msg ELSE IF e.repr # "" THEN e.repr ELSE e.type

ErrorSlot(claim_text, e) ==
    [claim |-> claim_text,
     result |-> "error",
     confidence_score |-> 0,
     evidence |-> <<>>,
     error |-> e.type \o ": " \o ErrMsg(e),
     error_type |-> e.type,
     error_stage |-> "process_claim_step",
     exc |-> NoException]

\* asyncio.gather(..., return_exceptions=True): an exception of a task is
\* stored as its result instead of being raised out of gather.
return_exceptionsOff == FALSE

return_exceptions == TRUE

\* Mutation: results stored in the order the tasks finish.
SlotOfCompletion(i, results) ==
    1 + Cardinality({j \in DOMAIN results : results[j] # NoSlot})

\* asyncio.gather keeps the order of the awaitables: task i fills slot i.
SlotOf(i, results) == i

\* confidence with the minimum substituted for an empty zero result
FlooredConfidence(output) ==
    IF output.confidence_score = 0 /\ Len(output.evidence) = 0
    THEN 10 ELSE output.confidence_score

\* 20 * evidence_weight * confidence_weight, with
\* evidence_weight = min(evidence_count + 1, 5) and
\* confidence_weight = max(confidence / 20, 0.5)
Weight20(output) ==
    Min(Len(output.evidence) + 1, 5) * Max(FlooredConfidence(output), 10)

\* Mutant: the weighted sum is not divided by the total weight.
WeightedAverageUnnormalised(outs) ==
    RoundHalfEven(SumSeq([i \in DOMAIN outs |-> FlooredConfidence(outs[i]) * Weight20(outs[i])]),
                  20)

\* run_fact_check: round(total_weighted_score / total_weight)
WeightedAverage(outs) ==
    LET total_weighted_score ==
            SumSeq([i \in DOMAIN outs |-> FlooredConfidence(outs[i]) * Weight20(outs[i])])
        total_weight == SumSeq([i \in DOMAIN outs |-> Weight20(outs[i])])
    IN  IF total_weight > 0 THEN RoundHalfEven(total_weighted_score, total_weight) ELSE 0

\* run_article_fact_check: round(sum(confidence_score) / len(outputs))
SimpleAverage(outs) ==
    RoundHalfEven(SumSeq([i \in DOMAIN outs |-> outs[i].confidence_score]), Len(outs))

AverageScore(v, outs) ==
    IF outs = <<>> THEN 0
    ELSE IF v = "video" THEN WeightedAverage(outs) ELSE SimpleAverage(outs)

\* {"error": message}
ErrorResponse(message) ==
    [error |-> message, total |-> -1, claims |-> <<>>, complete |-> FALSE,
     created_at |-> NoTimestamp]

\* Mutant: the response without claims reports the minimum 10.
EmptyResponseFloored ==
    [error |-> "", total |-> 10, claims |-> <<>>, complete |-> FALSE,
     created_at |-> NoTimestamp]

\* {"..._total_confidence_score": 0, "claims": []}
EmptyResponse ==
    [error |-> "", total |-> 0, claims |-> <<>>, complete |-> FALSE,
     created_at |-> NoTimestamp]

\* Mutant: the claims array lists the results in the order the tasks finished.
FullResponseAsCompleted(total, outs) ==
    [error |-> "", total |-> total,
     claims |-> [k \in DOMAIN outs |->
                    IF Len(finished) = Len(outs) THEN outs[finished[k]] ELSE outs[k]],
     complete |-> TRUE, created_at |-> now]

\* The result dictionary of a request that checked claims; "created_at" is
\* datetime.now().isoformat().
FullResponse(total, outs) ==
    [error |-> "", total |-> total, claims |-> outs, complete |-> TRUE, created_at |-> now]

RequestStart ==
    /\ variant \in {"video", "article"}
    /\ rPc = "source"
    /\ claims_to_check = <<>>
    /\ taskPc = <<>>
    /\ claim_semaphore = 0
    /\ returned = <<>>
    /\ finished = <<>>
    /\ gathered = <<>>
    /\ outputs = <<>>
    /\ avg_score = -1
    /\ reqResult = NoResponse
    /\ invoked = {}
    /\ failedStage = ""
    /\ status = 0

Return(res) ==
    /\ rPc' = "done"
    /\ reqResult' = res

\* extract_video_id and fetch_youtube_transcript, or get_article_text
FetchSource(outcome) ==
    /\ rPc = "source"
    /\ outcome = "invalid" => variant = "video"
    /\ CASE outcome = "invalid" -> Return(ErrorResponse("Invalid YouTube URL"))
         [] outcome = "empty" ->
                Return(ErrorResponse(IF variant = "video" THEN "Failed to load transcript"
                                     ELSE "Failed to load article"))
         [] OTHER -> rPc' = "aux" /\ UNCHANGED reqResult
    /\ UNCHANGED <<variant, claims_to_check, taskPc, claim_semaphore, returned, finished,
                   gathered, outputs, avg_score>>
    /\ UNCHANGED <<invoked, failedStage, status>>
    /\ UNCHANGED notReqVars

\* The keyword and summary chains, gathered; run_fact_check awaits them
\* inside its try block, run_article_fact_check outside of any.
Auxiliary(ok) ==
    /\ rPc = "aux"
    /\ IF ok THEN rPc' = "extract" /\ UNCHANGED reqResult
       ELSE IF variant = "video"
            THEN Return(ErrorResponse("Failed to extract claims: keyword or summary chain"))
       ELSE rPc' = "raised" /\ UNCHANGED reqResult
    /\ UNCHANGED <<variant, claims_to_check, taskPc, claim_semaphore, returned, finished,
                   gathered, outputs, avg_score>>
    /\ invoked' = invoked \cup {"keywords", "summary"}
    /\ failedStage' = IF ok THEN failedStage ELSE "auxiliary"
    /\ UNCHANGED status
    /\ UNCHANGED notReqVars

ExtractClaims(outcome) ==
    /\ rPc = "extract"
    /\ CASE outcome = "raise" -> Return(ErrorResponse("Failed to extract claims: extractor chain"))
         [] outcome = "none" -> Return(EmptyResponse)
         [] OTHER -> rPc' = "reduce" /\ UNCHANGED reqResult
    /\ UNCHANGED <<variant, claims_to_check, taskPc, claim_semaphore, returned, finished,
                   gathered, outputs, avg_score>>
    /\ invoked' = invoked \cup {"extractor"}
    /\ failedStage' = IF outcome = "raise" THEN "extractor" ELSE failedStage
    /\ UNCHANGED status
    /\ UNCHANGED notReqVars

\* The reducer chain, the cut to MAX_CLAIMS_TO_FACT_CHECK, and the creation
\* of the claim semaphore and of the claim tasks.  An exception up to here
\* is answered with "Failed to extract claims: <exception>".
ReduceClaims(reduced) ==
    /\ rPc = "reduce"
    /\ LET cut == FirstN(reduced, MAX_CLAIMS_TO_FACT_CHECK)
       IN  IF cut = <<>>
           THEN /\ Return(EmptyResponse)
                /\ UNCHANGED <<claims_to_check, taskPc, claim_semaphore, returned, gathered>>
           ELSE /\ rPc' = "claims"
                /\ claims_to_check' = cut
                /\ taskPc' = [i \in DOMAIN cut |-> "queued"]
                /\ claim_semaphore' = MAX_CONCURRENT_CLAIMS
                /\ returned' = [i \in DOMAIN cut |-> NotReturned]
                /\ gathered' = [i \in DOMAIN cut |-> NoSlot]
                /\ UNCHANGED reqResult
    /\ UNCHANGED <<variant, finished, outputs, avg_score>>
    /\ invoked' = invoked \cup {"reducer"}
    /\ UNCHANGED <<failedStage, status>>
    /\ UNCHANGED notReqVars

ReduceRaises ==
    /\ rPc = "reduce"
    /\ Return(ErrorResponse("Failed to extract claims: reducer chain"))
    /\ UNCHANGED <<variant, claims_to_check, taskPc, claim_semaphore, returned, finished,
                   gathered, outputs, avg_score>>
    /\ invoked' = invoked \cup {"reducer"}
    /\ failedStage' = "reducer"
    /\ UNCHANGED status
    /\ UNCHANGED notReqVars

\* Mutant: an exception leaves limited_process_claim without releasing the
\* permit.
KeptOnException(permits) == permits

\* "async with claim_semaphore" releases the permit when process_claim_step
\* raises.
ReleasedOnException(permits) == permits + 1

\* limited_process_claim: a task takes a permit; waiters are served in the
\* order they queued, which is the order of the claims.
StartTask(i) ==
    /\ rPc = "claims"
    /\ taskPc[i] = "queued"
    /\ claim_semaphore > 0
    /\ \A j \in 1..(i - 1) : taskPc[j] # "queued"
    /\ taskPc' = [taskPc EXCEPT ![i] = "running"]
    /\ claim_semaphore' = claim_semaphore - 1
    /\ UNCHANGED <<variant, rPc, claims_to_check, returned, finished, gathered, outputs,
                   avg_score, reqResult>>
    /\ invoked' = invoked \cup {"process_claim_step"}
    /\ UNCHANGED <<failedStage, status>>
    /\ UNCHANGED notReqVars

TaskReturns(i, evidence) ==
    /\ rPc = "claims"
    /\ taskPc[i] = "running"
    /\ taskPc' = [taskPc EXCEPT ![i] = "finished"]
    /\ claim_semaphore' = claim_semaphore + 1
    /\ returned' = [returned EXCEPT ![i] =
                       [raised |-> FALSE, exc |-> NoException,
                        confidence |-> PassConfidence(evidence), evidence |-> evidence]]
    /\ finished' = Append(finished, i)
    /\ gathered' = [gathered EXCEPT ![SlotOf(i, gathered)] =
                       ProcessResult(variant, claims_to_check[i], evidence)]
    /\ UNCHANGED <<variant, rPc, claims_to_check, outputs, avg_score, reqResult>>
    /\ UNCHANGED <<invoked, failedStage, status>>
    /\ UNCHANGED notReqVars

TaskRaises(i, e) ==
    /\ rPc = "claims"
    /\ taskPc[i] = "running"
    /\ taskPc' = [taskPc EXCEPT ![i] = "finished"]
    /\ claim_semaphore' = ReleasedOnException(claim_semaphore)
    /\ returned' = [returned EXCEPT ![i] =
                       [raised |-> TRUE, exc |-> e, confidence |-> -1, evidence |-> <<>>]]
    /\ finished' = Append(finished, i)
    /\ IF return_exceptions
       THEN /\ gathered' = [gathered EXCEPT ![SlotOf(i, gathered)] = ExceptionSlot(e)]
            /\ UNCHANGED rPc
       ELSE /\ rPc' = "raised"
            /\ UNCHANGED gathered
    /\ UNCHANGED <<variant, claims_to_check, outputs, avg_score, reqResult>>
    /\ UNCHANGED <<invoked, failedStage, status>>
    /\ UNCHANGED notReqVars

\* gather returns; the claims array and the total score are built.  The
\* article variant returns here, the video variant goes on to the channel
\* classifier.
GatherDone ==
    /\ rPc = "claims"
    /\ \A i \in DOMAIN taskPc : taskPc[i] = "finished"
    /\ LET outs == [i \in DOMAIN gathered |->
                       IF gathered[i].result = "exception"
                       THEN ErrorSlot(IF i <= Len(claims_to_check) THEN claims_to_check[i] ELSE "",
                                      gathered[i].exc)
                       ELSE gathered[i]]
       IN  /\ outputs' = outs
           /\ avg_score' = AverageScore(variant, outs)
           /\ IF variant = "video"
              THEN rPc' = "classify" /\ UNCHANGED reqResult
              ELSE Return(FullResponse(AverageScore(variant, outs), outs))
    /\ UNCHANGED <<variant, claims_to_check, taskPc, claim_semaphore, returned, finished,
                   gathered>>
    /\ UNCHANGED <<invoked, failedStage, status>>
    /\ UNCHANGED notReqVars

\* run_fact_check: the channel-type classifier, awaited outside any try.
Classify(ok) ==
    /\ rPc = "classify"
    /\ IF ok THEN Return(FullResponse(avg_score, outputs))
       ELSE rPc' = "raised" /\ UNCHANGED reqResult
    /\ UNCHANGED <<variant, claims_to_check, taskPc, claim_semaphore, returned, finished,
                   gathered, outputs, avg_score>>
    /\ invoked' = invoked \cup {"classifier"}
    /\ failedStage' = IF ok THEN failedStage ELSE "classifier"
    /\ UNCHANGED status
    /\ UNCHANGED notReqVars

\* What the endpoint sends once run_fact_check or run_article_fact_check has
\* returned or raised.  fact_check_endpoint raises its HTTPException(400)
\* inside the try block whose "except Exception" answers 500; the article
\* endpoint re-raises an HTTPException first.
EndpointStatus(v, pc, res) ==
    IF pc = "raised" THEN 500
    ELSE IF res.error # "" THEN (IF v = "video" THEN 500 ELSE 400)
    ELSE 200

Respond ==
    /\ rPc \in {"done", "raised"}
    /\ status = 0
    /\ status' = EndpointStatus(variant, rPc, reqResult)
    /\ UNCHANGED <<variant, rPc, claims_to_check, taskPc, claim_semaphore, returned, finished,
                   gathered, outputs, avg_score, reqResult, invoked, failedStage>>
    /\ UNCHANGED notReqVars

NextRequest ==
    \/ \E outcome \in {"text", "empty", "invalid"} : FetchSource(outcome)
    \/ \E ok \in BOOLEAN : Auxiliary(ok)
    \/ \E outcome \in {"claims", "none", "raise"} : ExtractClaims(outcome)
    \/ \E reduced \in ReducedLists : ReduceClaims(reduced)
    \/ ReduceRaises
    \/ \E i \in DOMAIN taskPc : StartTask(i)
    \/ \E i \in DOMAIN taskPc, evidence \in RequestEvidence : TaskReturns(i, evidence)
    \/ \E i \in DOMAIN taskPc, e \in Exceptions : TaskRaises(i, e)
    \/ GatherDone
    \/ \E ok \in BOOLEAN : Classify(ok)
    \/ Respond

InitRequest == IdleCache /\ IdleScore /\ IdleClaim /\ RequestStart /\ IdleReload /\ IdleRetrieve /\ IdleRuns /\ IdleWatch /\ IdleClean

SpecRequest == InitRequest /\ [][NextRequest]_vars

\* The event loop resumes a task that can take a permit, and every call of
\* process_claim_step that was started returns or raises.
FairRequest ==
    /\ WF_vars(\E i \in 1..MAX_CLAIMS_TO_FACT_CHECK : i \in DOMAIN taskPc /\ StartTask(i))
    /\ \A i \in 1..MAX_CLAIMS_TO_FACT_CHECK :
          WF_vars(/\ i \in DOMAIN taskPc
                  /\ \/ \E evidence \in RequestEvidence : TaskReturns(i, evidence)
                     \/ \E e \in Exceptions : TaskRaises(i, e))

SpecRequestFair == SpecRequest /\ FairRequest

\* The claims array has been built.
Gathered == rPc \in {"classify", "done", "raised"} /\ outputs # <<>>

\* The request returned a response with a claims array.
Answered == rPc = "done" /\ reqResult.error = ""

Expected(i) ==
    IF returned[i].raised
    THEN ErrorSlot(claims_to_check[i], returned[i].exc)
    ELSE ProcessResult(variant, claims_to_check[i], returned[i].evidence)

\* C3: a request whose reduced claim list has n claims answers with a claims
\* array of exactly n entries, and entry i is the result of reduced claim i,
\* in whatever order the claim tasks finished and whether or not some raised.
C3_ClaimsArrayInReducedOrder ==
    Answered =>
        /\ Len(reqResult.claims) = Len(claims_to_check)
        /\ \A i \in DOMAIN claims_to_check :
              /\ reqResult.claims[i].claim = claims_to_check[i]
              /\ reqResult.claims[i] = Expected(i)

\* Three claims, the second finished first, the first raised.
C3_Witness ==
    /\ Answered
    /\ Len(claims_to_check) = 3
    /\ Len(reqResult.claims) = 3
    /\ claims_to_check[1] # claims_to_check[2]
    /\ finished[1] = 2
    /\ returned[1].raised
    /\ reqResult.claims[2].result = "likely_true"

\* C4: a claim whose processing raised has the slot {result: error,
\* confidence_score: 0, evidence: [], error: "<Type>: <message>"}, the request
\* does not fail on it, and every other claim has the result it returned.
C4_RaisedClaimBecomesErrorSlot ==
    /\ rPc = "raised" => (variant = "article" /\ outputs = <<>> /\ finished = <<>>)
                         \/ (variant = "video" /\ Gathered)
    /\ Gathered =>
          /\ DOMAIN outputs = DOMAIN claims_to_check
          /\ \A i \in DOMAIN outputs :
                IF returned[i].raised
                THEN /\ outputs[i].result = "error"
                     /\ outputs[i].confidence_score = 0
                     /\ outputs[i].evidence = <<>>
                     /\ outputs[i].error = returned[i].exc.type \o ": " \o ErrMsg(returned[i].exc)
                     /\ outputs[i].claim = claims_to_check[i]
                ELSE outputs[i] = ProcessResult(variant, claims_to_check[i], returned[i].evidence)

\* The first claim raised before the second one had finished, and the second
\* one came back with evidence.
C4_Witness ==
    /\ Answered
    /\ Len(outputs) >= 2
    /\ finished[1] = 1
    /\ returned[1].raised
    /\ returned[1].exc.msg = ""
    /\ outputs[1].error = "TimeoutError: TimeoutError()"
    /\ ~returned[2].raised
    /\ outputs[2].result = "likely_true"
    /\ reqResult.claims = outputs

\* C7: in both variants the total confidence score is the weighted average
\* round(sum(c_i * w_i) / sum(w_i)) with 10 substituted for the confidence of
\* an empty zero result and w_i = min(evidence_count_i + 1, 5) * max(c_i / 20, 0.5).
C7_TotalIsWeightedAverageInBothVariants ==
    (rPc \in {"classify", "done"} /\ outputs # <<>>) => avg_score = WeightedAverage(outputs)

\* Acquiring the source text yielded nothing.
SourceEmpty == reqResult.error \in {"Failed to load transcript", "Failed to load article"}

Running == {i \in DOMAIN taskPc : taskPc[i] = "running"}

\* C23: at most MAX_CONCURRENT_CLAIMS claim tasks are inside
\* process_claim_step at any time, and every claim task that waits for the
\* semaphore eventually acquires it, also when earlier tasks raised.
C23_BoundedAndEveryTaskRuns ==
    /\ [](Cardinality(Running) <= MAX_CONCURRENT_CLAIMS)
    /\ [](Cardinality(Running) + claim_semaphore \in {0, MAX_CONCURRENT_CLAIMS})
    /\ \A i \in 1..MAX_CLAIMS_TO_FACT_CHECK :
          (i \in DOMAIN taskPc /\ taskPc[i] = "queued")
              ~> (i \in DOMAIN taskPc /\ taskPc[i] \in {"running", "finished"})

\* C23 witness: the first two tasks raised and the third holds a permit.
C23_Witness ==
    /\ rPc = "claims"
    /\ Len(taskPc) = 3
    /\ returned[1].raised /\ returned[2].raised
    /\ taskPc[3] = "running"
    /\ claim_semaphore = MAX_CONCURRENT_CLAIMS - 1

\* C14: when the source text is empty, the request is answered with a 4xx
\* status by the video endpoint as well as by the article endpoint, and no
\* claim extraction, retrieval or judgment was started.
C14_EmptySourceIs4xx ==
    SourceEmpty =>
        /\ invoked = {}
        /\ status # 0 => status \in 400..499

\* C15: a failure of the keyword or summary chain never fails the request: in
\* both variants the request is still answered with a complete result.
C15_AuxiliaryFailureKeepsResult ==
    (failedStage = "auxiliary" /\ rPc \in {"done", "raised"}) =>
        /\ rPc = "done"
        /\ reqResult.error = ""
        /\ status # 0 => status = 200

\* Extraction or reduction ended with an empty claim list.
EmptyClaims ==
    /\ rPc = "done"
    /\ failedStage = ""
    /\ "extractor" \in invoked
    /\ claims_to_check = <<>>

\* C18: when claim extraction or reduction yields an empty list, the request
\* returns total confidence 0 and claims = [], and no claim task (hence no
\* search, embedding or Judge call) was started.
C18_EmptyClaimListReturnsZero ==
    EmptyClaims =>
        /\ reqResult.error = ""
        /\ reqResult.total = 0
        /\ reqResult.claims = <<>>
        /\ taskPc = <<>>
        /\ invoked \subseteq {"keywords", "summary", "extractor", "reducer"}
        /\ status \in {0, 200}

\* C18 witness: the reducer returned no claim and the endpoint answered.
C18_Witness ==
    /\ EmptyClaims
    /\ "reducer" \in invoked
    /\ reqResult.total = 0
    /\ reqResult.claims = <<>>
    /\ status = 200

\* Every claim came back with confidence 0 and no evidence.
AllRejected ==
    /\ Gathered
    /\ \A i \in DOMAIN returned : ~returned[i].raised /\ returned[i].evidence = <<>>

\* C19: when every claim of a request with n >= 1 claims has confidence 0 and
\* no evidence, every claim is insufficient_evidence with confidence 0 and the
\* total confidence is 10.
C19_AllRejectedTotalIsTen ==
    AllRejected =>
        /\ \A i \in DOMAIN outputs :
              /\ outputs[i].result = "insufficient_evidence"
              /\ outputs[i].confidence_score = 0
        /\ avg_score = 10

\* C20: the confidence_score of every entry of the claims array and the
\* total confidence score are integers in 0..100.
C20_ScoresWithinZeroToHundred ==
    /\ \A i \in DOMAIN outputs : outputs[i].confidence_score \in 0..100
    /\ Gathered => avg_score \in 0..100
    /\ (rPc = "done" /\ reqResult.error = "") =>
          /\ reqResult.total \in 0..100
          /\ \A i \in DOMAIN reqResult.claims : reqResult.claims[i].confidence_score \in 0..100

\* C20 witness: an answer with an error entry (0), an entry of confidence 80
\* and a total in between.
C20_Witness ==
    /\ Answered
    /\ \E i, j \in DOMAIN reqResult.claims :
          /\ reqResult.claims[i].result = "error"
          /\ reqResult.claims[i].confidence_score = 0
          /\ reqResult.claims[j].confidence_score = 80
    /\ reqResult.total \in 1..79

----------------------------------------------------------------------------
\* Two runs of run_fact_check / run_article_fact_check on the same input
\* with the same collaborator outputs: the second run is given the reduced
\* claims of the first and every claim task returns or raises what it did in
\* the first run; only the clock and the order in which the tasks are
\* started and finish are free.

\* A step of the first run.
FirstRunStep ==
    /\ run = 1
    /\ NextRequest

\* The first run has returned its result dictionary; the pipeline is called
\* again, later, with the same input, and reaches the fan-out with the same
\* reduced claims.
Rerun ==
    /\ run = 1
    /\ rPc = "done"
    /\ reqResult.complete
    /\ firstRun' = [claims |-> claims_to_check, returned |-> returned,
                    finished |-> finished, result |-> reqResult]
    /\ run' = 2
    /\ now' = now + 1
    /\ rPc' = "claims"
    /\ taskPc' = [i \in DOMAIN claims_to_check |-> "queued"]
    /\ claim_semaphore' = MAX_CONCURRENT_CLAIMS
    /\ returned' = [i \in DOMAIN claims_to_check |-> NotReturned]
    /\ finished' = <<>>
    /\ gathered' = [i \in DOMAIN claims_to_check |-> NoSlot]
    /\ outputs' = <<>>
    /\ avg_score' = -1
    /\ reqResult' = NoResponse
    /\ status' = 0
    /\ UNCHANGED <<variant, claims_to_check, invoked, failedStage>>
    /\ UNCHANGED notReqRunVars

\* A claim task of the second run takes its permit.
SecondRunStart(i) ==
    /\ run = 2
    /\ i \in DOMAIN taskPc
    /\ StartTask(i)

\* process_claim_step of the second run ends as it did in the first: its
\* collaborators answer the same.
SecondRunTask(i) ==
    /\ run = 2
    /\ i \in DOMAIN taskPc
    /\ IF firstRun.returned[i].raised
       THEN TaskRaises(i, firstRun.returned[i].exc)
       ELSE TaskReturns(i, firstRun.returned[i].evidence)

SecondRunGather ==
    /\ run = 2
    /\ GatherDone

\* The channel classifier answered in the first run, so it answers again.
SecondRunClassify ==
    /\ run = 2
    /\ Classify(TRUE)

NextTwoRuns ==
    \/ FirstRunStep
    \/ Rerun
    \/ \E i \in 1..MAX_CLAIMS_TO_FACT_CHECK : SecondRunStart(i)
    \/ \E i \in 1..MAX_CLAIMS_TO_FACT_CHECK : SecondRunTask(i)
    \/ SecondRunGather
    \/ SecondRunClassify

InitTwoRuns == IdleCache /\ IdleScore /\ IdleClaim /\ RequestStart /\ IdleReload /\ IdleRetrieve /\ IdleRuns /\ IdleWatch /\ IdleClean

SpecTwoRuns == InitTwoRuns /\ [][NextTwoRuns]_vars

\* The second run has returned its result dictionary.
SecondAnswered == run = 2 /\ rPc = "done"

\* A result dictionary without its created_at entry.
WithoutCreatedAt(res) == [res EXCEPT !.created_at = NoTimestamp]

----------------------------------------------------------------------------
\* Title partitions: lifespan, _watch_titles_preload_task and a request in flight

\* Highest version of a partition's index objects in the bucket.
MaxVersion == 2

\* Retrieval passes of the request in flight (primary, secondary, overflow).
MaxPasses == 3

\* prefixes_now(): the monthly partition, then partition_10.
WatchedPrefixes == <<202611, 10>>

\* The parameters of preload_faiss_from_existing_s3.
PreloadParameters == {"s3_prefix"}

\* sorted(..., key=partition_num, reverse=True)
RECURSIVE SortDesc(_)
SortDesc(parts) ==
    IF parts = {} THEN <<>>
    ELSE LET m == CHOOSE x \in parts : \A y \in parts : y <= x
         IN  <<m>> \o SortDesc(parts \ {m})

\* preload_faiss_from_existing_s3 over the partitions parts: a partition with
\* an index in the bucket and no local directory gets a directory and the
\* downloads of its two files; the download of index.pkl fails for failing.
Preload(local, parts, failing) ==
    [p \in ReloadPartitions |->
        IF p \in parts /\ s3Part[p] # 0 /\ local[p] = AbsentDir
        THEN [faiss |-> s3Part[p], pkl |-> IF p \in failing THEN 0 ELSE s3Part[p]]
        ELSE local[p]]

\* _refresh_faiss_partition_dirs: the list is cleared and refilled with the
\* local partition directories, newest first.
Refresh(local) == SortDesc({p \in ReloadPartitions : local[p] # AbsentDir})

\* FAISS.load_local of a partition directory: the version it holds, 0 when
\* the load raises (no directory, a missing file).
Load(p) ==
    IF localPart[p].faiss > 0 /\ localPart[p].pkl = localPart[p].faiss
    THEN localPart[p].faiss ELSE 0

\* What a retrieval pass started now finds: the partitions of the list in
\* search order, each with what loading it yields.
Observe ==
    LET order == SortDesc(Range(main_dirs))
    IN  [i \in DOMAIN order |-> [dir |-> order[i], index |-> Load(order[i])]]

ReloadStart ==
    /\ s3Part \in [ReloadPartitions -> 0..1]
    /\ s3Part[9] = 1
    /\ localPart = [p \in ReloadPartitions |-> AbsentDir]
    /\ main_dirs = <<>>
    /\ seen = [p \in ReloadPartitions |-> 0]
    /\ wStarted = FALSE
    /\ detected = {}
    /\ inflight = "none"
    /\ observed = <<>>

\* lifespan: the first preload of every partition under the title prefix, the
\* refresh of the list, the creation of the watcher task.
Lifespan(failing) ==
    /\ ~wStarted
    /\ LET local == Preload(localPart, ReloadPartitions, failing)
       IN  /\ localPart' = local
           /\ main_dirs' = Refresh(local)
    /\ wStarted' = TRUE
    /\ UNCHANGED <<s3Part, seen, detected, inflight, observed>>
    /\ UNCHANGED notReloadVars

\* The index builder publishes a new version of a watched partition.
Publish(p) ==
    /\ s3Part[p] < MaxVersion
    /\ s3Part' = [s3Part EXCEPT ![p] = @ + 1]
    /\ UNCHANGED <<localPart, main_dirs, seen, wStarted, detected, inflight, observed>>
    /\ UNCHANGED notReloadVars

\* The body of the watcher's try block from prefix Head(prefixes) on.  The
\* call preload_faiss_from_existing_s3(prefix, force_reload=True) raises
\* TypeError when the function has no such parameter; the exception leaves
\* the for loop and is logged by the except clause.
RECURSIVE WatchFrom(_, _)
WatchFrom(prefixes, st) ==
    IF prefixes = <<>> THEN st
    ELSE LET p == Head(prefixes)
             tag == s3Part[p]
         IN  IF tag = 0 \/ st.seen[p] = tag
             THEN WatchFrom(Tail(prefixes), st)
             ELSE LET removed == [st EXCEPT !.local[p] = AbsentDir,
                                            !.detected = @ \cup {[prefix |-> p, tag |-> tag]}]
                      loaded == Preload(removed.local, {p}, {})
                  IN  IF "force_reload" \notin PreloadParameters
                      THEN removed
                      ELSE WatchFrom(Tail(prefixes),
                                     [removed EXCEPT !.local = loaded,
                                                     !.dirs = Refresh(loaded),
                                                     !.seen[p] = tag])

\* One round of the watcher's while loop; it has no await before the sleep.
WatcherPoll ==
    /\ wStarted
    /\ LET st == WatchFrom(WatchedPrefixes,
                           [local |-> localPart, dirs |-> main_dirs, seen |-> seen,
                            detected |-> {}])
       IN  /\ localPart' = st.local
           /\ main_dirs' = st.dirs
           /\ seen' = st.seen
           /\ detected' = st.detected
    /\ UNCHANGED <<s3Part, wStarted, inflight, observed>>
    /\ UNCHANGED notReloadVars

\* An endpoint accepts a request (the list is not empty) and hands it the
\* list; what the request would find now is kept as observed[1].
AcceptRequest ==
    /\ wStarted
    /\ inflight = "none"
    /\ main_dirs # <<>>
    /\ inflight' = "running"
    /\ observed' = <<Observe>>
    /\ UNCHANGED <<s3Part, localPart, main_dirs, seen, wStarted, detected>>
    /\ UNCHANGED notReloadVars

\* A call of search_and_retrieve_docs_once by the request: its partition
\* loop runs without an await.
RetrievalPass ==
    /\ inflight = "running"
    /\ Len(observed) <= MaxPasses
    /\ observed' = Append(observed, Observe)
    /\ UNCHANGED <<s3Part, localPart, main_dirs, seen, wStarted, detected, inflight>>
    /\ UNCHANGED notReloadVars

FinishRequest ==
    /\ inflight = "running"
    /\ inflight' = "finished"
    /\ UNCHANGED <<s3Part, localPart, main_dirs, seen, wStarted, detected, observed>>
    /\ UNCHANGED notReloadVars

NextReload ==
    \/ \E failing \in SUBSET ReloadPartitions : Lifespan(failing)
    \/ \E p \in Range(WatchedPrefixes) : Publish(p)
    \/ WatcherPoll
    \/ AcceptRequest
    \/ RetrievalPass
    \/ FinishRequest

InitReload == IdleCache /\ IdleScore /\ IdleClaim /\ IdleRequest /\ ReloadStart /\ IdleRetrieve /\ IdleRuns /\ IdleWatch /\ IdleClean

SpecReload == InitReload /\ [][NextReload]_vars

C13_DetectedChangeFullyHandled ==
    \A d \in detected :
        /\ localPart[d.prefix].faiss = d.tag
        /\ localPart[d.prefix].pkl = d.tag
        /\ seen[d.prefix] = d.tag
        /\ \A i \in DOMAIN main_dirs : localPart[main_dirs[i]] # AbsentDir

\* C35: every partition directory in faiss_partition_dirs holds index.faiss
\* and index.pkl of one and the same version, completely downloaded.
C35_ListedPartitionsComplete ==
    \A i \in DOMAIN main_dirs :
        /\ localPart[main_dirs[i]].faiss > 0
        /\ localPart[main_dirs[i]].pkl = localPart[main_dirs[i]].faiss

----------------------------------------------------------------------------
\* search_and_retrieve_docs_once

\* Candidates per retrieval (MAX_ARTICLES_PER_CLAIM, 10 in the source) and
\* titles taken from the search results (search_results[:10], the bound of
\* the model); the model runs a small configuration.
MAX_ARTICLES_PER_CLAIM == 2

MaxTitles == 2

\* DISTANCE_THRESHOLD = 0.8, in tenths.
DISTANCE_THRESHOLD == 8

\* Largest value of PARTITION_STOP_HITS in the model (default 1).
MaxStopHits == 2

RetrieveUrls == {"a", "b", "c"}

Neighbour(d, u) == [dist |-> d, url |-> u]

\* What index.search returns for one query vector: neighbours by increasing
\* distance with the URL of their title entry ("" when the entry has none).
NeighbourLists ==
    {<<Neighbour(5, "a"), Neighbour(7, "b")>>,
     <<Neighbour(5, "b")>>,
     <<Neighbour(8, "c"), Neighbour(9, "a")>>,
     <<Neighbour(5, ""), Neighbour(7, "c")>>}

\* The partition lists a retrieval is called with: none, one partition, two
\* and three partitions in ascending, descending and mixed order.
DirLists == {<<>>, <<10>>, <<9, 10>>, <<10, 9>>, <<9, 11, 10>>, <<11, 10, 9>>}

RetrieveStart ==
    /\ sDirs \in DirLists
    /\ seen_urls \in {{}, {"a"}}
    /\ PARTITION_STOP_HITS \in 1..MaxStopHits
    /\ sPc = "search"
    /\ cse_titles = 0
    /\ cse_title_embs = 0
    /\ embed_calls = 0
    /\ tIdx = 0
    /\ stop = FALSE
    /\ article_urls = <<>>
    /\ matched_meta = <<>>
    /\ chosen_for_cse = {}
    /\ fallback = <<>>
    /\ visits = <<>>
    /\ sDocs = <<>>
    /\ mIdx = 0
    /\ sResult = NotYet

\* partition_num: the number in the directory name.
partition_num(dir) == dir

\* Mutant: the partitions in the order of the list.
ListOrder(list) == list

\* sorted(faiss_partition_dirs, key=partition_num, reverse=True)
RECURSIVE SortedDesc(_)
SortedDesc(list) ==
    IF list = <<>> THEN <<>>
    ELSE LET i == CHOOSE k \in DOMAIN list :
                      /\ \A m \in DOMAIN list : partition_num(list[m]) <= partition_num(list[k])
                      /\ \A m \in 1..(k - 1) : partition_num(list[m]) < partition_num(list[k])
         IN  <<list[i]>> \o SortedDesc(SubSeq(list, 1, i - 1) \o SubSeq(list, i + 1, Len(list)))

sorted_dirs == SortedDesc(sDirs)

\* Embedding calls _embed_docs_with_retry makes when the first failures calls fail.
EmbedAttempts(failures, retries) == Min(failures, retries) + 1

\* _embed_docs_with_retry: the vectors of the n texts, or [] when the call
\* and its retries failed.
embed_docs_with_retry(n, failures, retries) == IF failures > retries THEN 0 ELSE n

Visit(stage, dir, outcome, added) ==
    [stage |-> stage, dir |-> dir, outcome |-> outcome, added |-> added]

\* dist < DISTANCE_THRESHOLD
WithinThreshold(dist) == dist < DISTANCE_THRESHOLD

\* Line 240: the neighbour has a URL that is neither in seen_urls nor in seen_tmp.
Acceptable(nb, urls) ==
    /\ WithinThreshold(nb.dist)
    /\ nb.url # ""
    /\ nb.url \notin seen_urls
    /\ nb.url \notin Range(urls)

\* Index of the first acceptable neighbour of the list, 0 when there is none.
FirstAcceptable(nbs, urls) ==
    IF \E i \in DOMAIN nbs : Acceptable(nbs[i], urls)
    THEN CHOOSE i \in DOMAIN nbs :
            /\ Acceptable(nbs[i], urls)
            /\ \A m \in 1..(i - 1) : ~Acceptable(nbs[m], urls)
    ELSE 0

\* Lines 231-254: the loop over the title positions from j on, for the
\* search result D of the partition dir.
RECURSIVE ScanPositions(_, _, _, _)
ScanPositions(j, acc, D, dir) ==
    IF j > cse_title_embs THEN acc
    ELSE IF j \in acc.chosen THEN ScanPositions(j + 1, acc, D, dir)
    ELSE LET i == FirstAcceptable(D[j], acc.urls) IN
         IF i = 0 THEN ScanPositions(j + 1, acc, D, dir)
         ELSE LET next == [urls |-> Append(acc.urls, D[j][i].url),
                           meta |-> Append(acc.meta, [pos |-> j, dist |-> D[j][i].dist,
                                                      dir |-> dir]),
                           chosen |-> acc.chosen \cup {j},
                           stop |-> Len(acc.urls) + 1 >= MAX_ARTICLES_PER_CLAIM]
              IN  IF next.stop THEN next ELSE ScanPositions(j + 1, next, D, dir)

\* Mutant: the stage goes on to the next partition unless more than
\* PARTITION_STOP_HITS URLs were added.
StopHitsExceeded(added) == added > PARTITION_STOP_HITS

\* Line 256: len(article_urls) - before_count >= PARTITION_STOP_HITS
StopHitsReached(added) == added >= PARTITION_STOP_HITS

\* The search provider returned n titles (lines 166-186).
SearchTitles(n) ==
    /\ sPc = "search"
    /\ cse_titles' = n
    /\ IF n = 0
       THEN sPc' = "done" /\ sResult' = Docs(<<>>)
       ELSE sPc' = "embed" /\ UNCHANGED sResult
    /\ UNCHANGED <<sDirs, seen_urls, PARTITION_STOP_HITS, cse_title_embs, embed_calls, tIdx,
                   stop, article_urls, matched_meta, chosen_for_cse, fallback, visits, sDocs,
                   mIdx>>
    /\ UNCHANGED notRetrVars

\* _embed_docs_with_retry(cse_titles, retries=1) when the first failures
\* embed_documents calls fail.
EmbedTitles(failures) ==
    /\ sPc = "embed"
    /\ embed_calls' = EmbedAttempts(failures, 1)
    /\ cse_title_embs' = embed_docs_with_retry(cse_titles, failures, 1)
    /\ sPc' = "title"
    /\ tIdx' = 0
    /\ UNCHANGED <<sDirs, seen_urls, PARTITION_STOP_HITS, cse_titles, stop, article_urls,
                   matched_meta, chosen_for_cse, fallback, visits, sDocs, mIdx, sResult>>
    /\ UNCHANGED notRetrVars

\* The title-match loop takes the next partition, which cannot be searched:
\* load_local raises ("load_failed"), or the index is empty ("empty").
TitlePartitionUnusable(outcome) ==
    /\ sPc = "title"
    /\ ~stop
    /\ tIdx < Len(sorted_dirs)
    /\ tIdx' = tIdx + 1
    /\ visits' = Append(visits, Visit("title", sorted_dirs[tIdx + 1], outcome, 0))
    /\ UNCHANGED <<sDirs, seen_urls, PARTITION_STOP_HITS, sPc, cse_titles, cse_title_embs,
                   embed_calls, stop, article_urls, matched_meta, chosen_for_cse, fallback,
                   sDocs, mIdx, sResult>>
    /\ UNCHANGED notRetrVars

\* The title-match loop takes the next partition and searches it; D is the
\* search result per title position. Without title vectors index.search
\* raises and the except clause logs it.
TitlePartitionSearch(D) ==
    /\ sPc = "title"
    /\ ~stop
    /\ tIdx < Len(sorted_dirs)
    /\ tIdx' = tIdx + 1
    /\ LET dir == sorted_dirs[tIdx + 1] IN
       IF cse_title_embs = 0
       THEN /\ visits' = Append(visits, Visit("title", dir, "search_failed", 0))
            /\ UNCHANGED <<stop, article_urls, matched_meta, chosen_for_cse>>
       ELSE LET acc == ScanPositions(1, [urls |-> article_urls, meta |-> matched_meta,
                                         chosen |-> chosen_for_cse, stop |-> FALSE], D, dir)
                added == Len(acc.urls) - Len(article_urls)
            IN  /\ article_urls' = acc.urls
                /\ matched_meta' = acc.meta
                /\ chosen_for_cse' = acc.chosen
                /\ stop' = (acc.stop \/ StopHitsReached(added))
                /\ visits' = Append(visits, Visit("title", dir, "searched", added))
    /\ UNCHANGED <<sDirs, seen_urls, PARTITION_STOP_HITS, sPc, cse_titles, cse_title_embs,
                   embed_calls, fallback, sDocs, mIdx, sResult>>
    /\ UNCHANGED notRetrVars

\* The title-match loop is over: line 262 goes to the fallback when no URL
\* was selected, line 321 to the bodies otherwise.
TitleLoopEnds ==
    /\ sPc = "title"
    /\ stop \/ tIdx = Len(sorted_dirs)
    /\ sPc' = IF article_urls = <<>> THEN "fallback_embed" ELSE "materialize"
    /\ tIdx' = 0
    /\ UNCHANGED <<sDirs, seen_urls, PARTITION_STOP_HITS, cse_titles, cse_title_embs,
                   embed_calls, stop, article_urls, matched_meta, chosen_for_cse, fallback,
                   visits, sDocs, mIdx, sResult>>
    /\ UNCHANGED notRetrVars

\* _embed_query_with_retry(summarized_query, retries=1); None returns [].
EmbedQuery(failures) ==
    /\ sPc = "fallback_embed"
    /\ IF failures > 1
       THEN sPc' = "done" /\ sResult' = Docs(<<>>)
       ELSE sPc' = "fallback" /\ UNCHANGED sResult
    /\ UNCHANGED <<sDirs, seen_urls, PARTITION_STOP_HITS, cse_titles, cse_title_embs,
                   embed_calls, tIdx, stop, article_urls, matched_meta, chosen_for_cse,
                   fallback, visits, sDocs, mIdx>>
    /\ UNCHANGED notRetrVars

FallbackUnusable(outcome) ==
    /\ sPc = "fallback"
    /\ tIdx < Len(sorted_dirs)
    /\ tIdx' = tIdx + 1
    /\ visits' = Append(visits, Visit("fallback", sorted_dirs[tIdx + 1], outcome, 0))
    /\ UNCHANGED <<sDirs, seen_urls, PARTITION_STOP_HITS, sPc, cse_titles, cse_title_embs,
                   embed_calls, stop, article_urls, matched_meta, chosen_for_cse, fallback,
                   sDocs, mIdx, sResult>>
    /\ UNCHANGED notRetrVars

\* Lines 296-306: the neighbours of the query vector go into the dict
\* fallback, a URL keeping its place and its smallest distance.
RECURSIVE UpdateFallback(_, _, _)
UpdateFallback(dict, nbs, dir) ==
    IF nbs = <<>> THEN dict
    ELSE LET nb == Head(nbs)
             at == {i \in DOMAIN dict : dict[i].url = nb.url}
         IN  IF ~WithinThreshold(nb.dist) \/ nb.url = ""
             THEN UpdateFallback(dict, Tail(nbs), dir)
             ELSE IF at = {}
                  THEN UpdateFallback(Append(dict, [url |-> nb.url, dist |-> nb.dist,
                                                    dir |-> dir]), Tail(nbs), dir)
                  ELSE LET i == CHOOSE k \in at : TRUE IN
                       IF nb.dist < dict[i].dist
                       THEN UpdateFallback([dict EXCEPT ![i] = [url |-> nb.url,
                                               dist |-> nb.dist, dir |-> dir]], Tail(nbs), dir)
                       ELSE UpdateFallback(dict, Tail(nbs), dir)

FallbackSearch(nbs) ==
    /\ sPc = "fallback"
    /\ tIdx < Len(sorted_dirs)
    /\ tIdx' = tIdx + 1
    /\ LET dir == sorted_dirs[tIdx + 1]
           dict == UpdateFallback(fallback, nbs, dir)
       IN  /\ fallback' = dict
           /\ visits' = Append(visits, Visit("fallback", dir, "searched",
                                             Len(dict) - Len(fallback)))
    /\ UNCHANGED <<sDirs, seen_urls, PARTITION_STOP_HITS, sPc, cse_titles, cse_title_embs,
                   embed_calls, stop, article_urls, matched_meta, chosen_for_cse,
                   sDocs, mIdx, sResult>>
    /\ UNCHANGED notRetrVars

\* sorted(fallback.items(), key=dist): stable, ties in insertion order.
RECURSIVE SortedByDist(_)
SortedByDist(dict) ==
    IF dict = <<>> THEN <<>>
    ELSE LET i == CHOOSE k \in DOMAIN dict :
                      /\ \A m \in DOMAIN dict : dict[k].dist <= dict[m].dist
                      /\ \A m \in 1..(k - 1) : dict[m].dist > dict[k].dist
         IN  <<dict[i]>> \o SortedByDist(SubSeq(dict, 1, i - 1) \o SubSeq(dict, i + 1, Len(dict)))

\* Lines 310-318: the fallback URLs by increasing distance, cut to
\* MAX_ARTICLES_PER_CLAIM.
FallbackLoopEnds ==
    /\ sPc = "fallback"
    /\ tIdx = Len(sorted_dirs)
    /\ LET best == FirstN(SortedByDist(fallback), MAX_ARTICLES_PER_CLAIM) IN
       /\ article_urls' = [i \in DOMAIN best |-> best[i].url]
       /\ matched_meta' = [i \in DOMAIN best |->
                              [pos |-> 0, dist |-> best[i].dist, dir |-> best[i].dir]]
    /\ sPc' = "materialize"
    /\ tIdx' = 0
    /\ UNCHANGED <<sDirs, seen_urls, PARTITION_STOP_HITS, cse_titles, cse_title_embs,
                   embed_calls, stop, chosen_for_cse, fallback, visits, sDocs, mIdx, sResult>>
    /\ UNCHANGED notRetrVars

\* Mutant: the body document is kept whatever seen_urls holds.
DocKeptAlways(url) == url # ""

\* Line 327: actual_url and actual_url not in seen_urls; the index of a URL
\* holds documents of that URL.
DocKept(url) == url # "" /\ url \notin seen_urls

\* Lines 322-337: ensure_article_faiss for the next article URL returns an
\* index ("index"), returns None ("absent") or raises ("raised").
Materialize(outcome) ==
    /\ sPc = "materialize"
    /\ mIdx < Len(article_urls)
    /\ LET url == article_urls[mIdx + 1] IN
       IF outcome = "raised"
       THEN /\ sPc' = "done"
            /\ sResult' = DocsRaised
            /\ UNCHANGED <<sDocs, mIdx>>
       ELSE /\ mIdx' = mIdx + 1
            /\ sDocs' = IF outcome = "index" /\ DocKept(url) THEN Append(sDocs, url) ELSE sDocs
            /\ UNCHANGED <<sPc, sResult>>
    /\ UNCHANGED <<sDirs, seen_urls, PARTITION_STOP_HITS, cse_titles, cse_title_embs,
                   embed_calls, tIdx, stop, article_urls, matched_meta, chosen_for_cse,
                   fallback, visits>>
    /\ UNCHANGED notRetrVars

\* return docs
ReturnDocs ==
    /\ sPc = "materialize"
    /\ mIdx = Len(article_urls)
    /\ sPc' = "done"
    /\ sResult' = Docs(sDocs)
    /\ UNCHANGED <<sDirs, seen_urls, PARTITION_STOP_HITS, cse_titles, cse_title_embs,
                   embed_calls, tIdx, stop, article_urls, matched_meta, chosen_for_cse,
                   fallback, visits, sDocs, mIdx>>
    /\ UNCHANGED notRetrVars

NextRetrieve ==
    \/ \E n \in 0..MaxTitles : SearchTitles(n)
    \/ \E failures \in 0..2 : EmbedTitles(failures)
    \/ \E outcome \in {"load_failed", "empty"} : TitlePartitionUnusable(outcome)
    \/ \E D \in [1..MaxTitles -> NeighbourLists] : TitlePartitionSearch(D)
    \/ TitleLoopEnds
    \/ \E failures \in 0..2 : EmbedQuery(failures)
    \/ \E outcome \in {"load_failed", "empty"} : FallbackUnusable(outcome)
    \/ \E nbs \in NeighbourLists : FallbackSearch(nbs)
    \/ FallbackLoopEnds
    \/ \E outcome \in {"index", "absent", "raised"} : Materialize(outcome)
    \/ ReturnDocs

InitRetrieve == IdleCache /\ IdleScore /\ IdleClaim /\ IdleRequest /\ IdleReload /\ RetrieveStart /\ IdleRuns /\ IdleWatch /\ IdleClean

SpecRetrieve == InitRetrieve /\ [][NextRetrieve]_vars

DocsReturned == sPc = "done" /\ sResult.state = "returned"

VisitsOf(stage) == SelectSeq(visits, LAMBDA v : v.stage = stage)

\* C21: every result of search_and_retrieve_docs_once has at most
\* MAX_ARTICLES_PER_CLAIM candidates with pairwise distinct URLs, none of
\* them in seen_urls, whether they come from the title-match stage or from
\* the query-embedding fallback; the same holds for the selected URLs.
C21_AtMostMaxDistinctUnseen ==
    /\ Len(article_urls) <= MAX_ARTICLES_PER_CLAIM
    /\ NoRepeat(article_urls)
    /\ Len(sDocs) <= MAX_ARTICLES_PER_CLAIM
    /\ NoRepeat(sDocs)
    /\ \A i \in DOMAIN sDocs : sDocs[i] \notin seen_urls
    /\ DocsReturned =>
          /\ Len(sResult.docs) <= MAX_ARTICLES_PER_CLAIM
          /\ NoRepeat(sResult.docs)
          /\ \A i \in DOMAIN sResult.docs : sResult.docs[i] \notin seen_urls

\* C21 witness: the fallback found more URLs than MAX_ARTICLES_PER_CLAIM in
\* several partitions, one of the selected URLs is in seen_urls, and the
\* result holds the other one.
C21_Witness ==
    /\ DocsReturned
    /\ Len(fallback) > MAX_ARTICLES_PER_CLAIM
    /\ Len(article_urls) = MAX_ARTICLES_PER_CLAIM
    /\ \E i \in DOMAIN article_urls : article_urls[i] \in seen_urls
    /\ \E i, j \in DOMAIN visits :
          /\ i # j
          /\ visits[i].stage = "fallback" /\ visits[i].outcome = "searched"
          /\ visits[j].stage = "fallback" /\ visits[j].outcome = "searched"
    /\ Len(sResult.docs) = 1

\* Both calls of embed_documents failed.
EmbeddingFailed == sPc \notin {"search", "embed"} /\ embed_calls = 2 /\ cse_title_embs = 0

\* C25: when the embedding call fails on its first attempt and on its retry,
\* the retrieval returns an empty list: no partition is searched in the
\* fallback, no URL is selected and no body is materialized.
C25_EmbeddingFailureReturnsEmpty ==
    EmbeddingFailed =>
        /\ \A i \in DOMAIN visits : visits[i].outcome # "searched"
        /\ article_urls = <<>>
        /\ mIdx = 0
        /\ sPc = "done" => sResult = Docs(<<>>)

C27_DescendingOrdinal ==
    \A i, j \in DOMAIN visits :
        (i < j /\ visits[i].stage = visits[j].stage) => visits[i].dir > visits[j].dir

\* C27 witness: a list in mixed order was visited completely in both stages.
C27_Witness ==
    /\ sDirs = <<9, 11, 10>>
    /\ [i \in DOMAIN visits |-> visits[i].dir] = <<11, 10, 9, 11, 10, 9>>
    /\ [i \in DOMAIN visits |-> visits[i].stage] =
          <<"title", "title", "title", "fallback", "fallback", "fallback">>

\* C28: in the title-match stage a URL is selected only through a neighbour
\* strictly below DISTANCE_THRESHOLD, each title position contributes at
\* most one URL over all partitions, and the selected URLs are in increasing
\* title position, for every value of PARTITION_STOP_HITS.
C28_SelectedInPositionOrder ==
    \A i, j \in DOMAIN matched_meta :
        (matched_meta[i].pos > 0 /\ matched_meta[j].pos > 0) =>
            /\ matched_meta[i].dist < DISTANCE_THRESHOLD
            /\ i # j => matched_meta[i].pos # matched_meta[j].pos
            /\ i < j => matched_meta[i].pos < matched_meta[j].pos

----------------------------------------------------------------------------
\* The polling watcher scripts: watch_s3_titles_preload, watch_s3_and_prewarm

\* Highest change tag (ETag and LastModified) of a watched prefix.
MaxTag == 2

\* _target_prefixes(cfg) of watch_s3_titles_preload: the monthly partition,
\* then partition_10.
TitlesPrefixes == <<202611, 10>>

\* _target_prefix(cfg) of watch_s3_and_prewarm: the monthly partition only.
PrewarmPrefix == 202611

\* The options the argument parser of scripts/prewarm_articles.py declares.
PrewarmOptions ==
    {"--prefix", "--source", "--file", "--limit", "--concurrency", "--partition",
     "--min-delay", "--max-delay", "--preload-wait-timeout", "--preload-poll-interval"}

\* The options on the command line _run_prewarm builds.
PrewarmCommand == {"--source", "--prefix", "--force-reload", "--concurrency", "--limit"}

\* _run_prewarm: the return code of the child process; the argument parser
\* exits with 2 on an option it does not declare, otherwise the run ends
\* with rc.
run_prewarm(rc) == IF PrewarmCommand \subseteq PrewarmOptions THEN rc ELSE 2

\* preload_faiss_from_existing_s3(prefix) right after the local directory was
\* removed: the directory is created and the two files are downloaded; a
\* failed download is logged and leaves its file missing.
PreloadPrefix(tag, pklFails) == [faiss |-> tag, pkl |-> IF pklFails THEN 0 ELSE tag]

\* The local partition directory holds both files of the tag.
Preloaded(dir, tag) == dir.faiss = tag /\ dir.pkl = tag

WatchStart ==
    /\ bucketTag \in [WatchedByScripts -> 0..1]
    /\ titleDir = [p \in WatchedByScripts |-> AbsentDir]
    /\ titles_state = [p \in WatchedByScripts |-> 0]
    /\ prewarm_state = [p \in WatchedByScripts |-> 0]
    /\ triggered = {}

\* The index builder uploads a new version of a watched partition.
UploadIndex(p) ==
    /\ bucketTag[p] < MaxTag
    /\ bucketTag' = [bucketTag EXCEPT ![p] = @ + 1]
    /\ UNCHANGED <<titleDir, titles_state, prewarm_state, triggered>>
    /\ UNCHANGED notWatchVars

\* The for loop of watch_s3_titles_preload from prefix Head(prefixes) on.
\* The download of index.pkl fails for the prefixes in failing; the listing
\* of the prefix raises for those in raising, which leaves the loop for the
\* except clause of the round.
RECURSIVE TitlesFrom(_, _, _, _)
TitlesFrom(prefixes, st, failing, raising) ==
    IF prefixes = <<>> THEN st
    ELSE LET p == Head(prefixes)
             tag == bucketTag[p]
         IN  IF tag = 0 \/ st.state[p] = tag
             THEN TitlesFrom(Tail(prefixes), st, failing, raising)
             ELSE LET removed == [st EXCEPT !.local[p] = AbsentDir]
                      dir == PreloadPrefix(tag, p \in failing)
                      ran(ok) == [watcher |-> "titles", prefix |-> p, tag |-> tag, ok |-> ok]
                  IN  IF p \in raising
                      THEN [removed EXCEPT !.ran = @ \cup {ran(FALSE)}]
                      ELSE TitlesFrom(Tail(prefixes),
                                      [removed EXCEPT !.local[p] = dir,
                                                      !.state[p] = tag,
                                                      !.ran = @ \cup {ran(Preloaded(dir, tag))}],
                                      failing, raising)

\* One round of the while loop of watch_s3_titles_preload.
TitlesPoll(failing, raising) ==
    /\ LET st == TitlesFrom(TitlesPrefixes,
                            [local |-> titleDir, state |-> titles_state, ran |-> triggered],
                            failing, raising)
       IN  /\ titleDir' = st.local
           /\ titles_state' = st.state
           /\ triggered' = st.ran
    /\ UNCHANGED <<bucketTag, prewarm_state>>
    /\ UNCHANGED notWatchVars

\* One round of the while loop of watch_s3_and_prewarm; the prewarm run
\* would end with rc.
PrewarmPoll(rc) ==
    /\ LET p == PrewarmPrefix
           tag == bucketTag[p]
           code == run_prewarm(rc)
       IN  IF tag = 0 \/ prewarm_state[p] = tag
           THEN UNCHANGED <<prewarm_state, triggered>>
           ELSE /\ prewarm_state' = IF code = 0 THEN [prewarm_state EXCEPT ![p] = tag]
                                    ELSE prewarm_state
                /\ triggered' = triggered \cup
                       {[watcher |-> "prewarm", prefix |-> p, tag |-> tag, ok |-> code = 0]}
    /\ UNCHANGED <<bucketTag, titleDir, titles_state>>
    /\ UNCHANGED notWatchVars

NextWatch ==
    \/ \E p \in WatchedByScripts : UploadIndex(p)
    \/ \E failing, raising \in SUBSET WatchedByScripts : TitlesPoll(failing, raising)
    \/ \E rc \in {0, 1} : PrewarmPoll(rc)

InitWatch == IdleCache /\ IdleScore /\ IdleClaim /\ IdleRequest /\ IdleReload /\ IdleRetrieve /\ IdleRuns /\ WatchStart /\ IdleClean

SpecWatch == InitWatch /\ [][NextWatch]_vars

\* C40: in both polling watchers a tag is recorded as seen only after the
\* action triggered by that tag succeeded.
C40_RecordedOnlyAfterSuccess ==
    \A p \in WatchedByScripts :
        /\ titles_state[p] # 0 =>
               [watcher |-> "titles", prefix |-> p, tag |-> titles_state[p], ok |-> TRUE] \in triggered
        /\ prewarm_state[p] # 0 =>
               [watcher |-> "prewarm", prefix |-> p, tag |-> prewarm_state[p], ok |-> TRUE] \in triggered

----------------------------------------------------------------------------
\* clean_evidence_content (core/lambdas.py)
\*
\* A text is a sequence of tokens: a run of Hangul or of Latin letters that
\* holds none of the words the patterns name, one of those words, a digit,
\* a white-space character or a punctuation character.  A pattern is a
\* sequence of elements, each a token class with a quantifier.  Hangul
\* tokens are written in their romanisation ("gija" reporter, "nyuseu" news,
\* "sinmun" newspaper, "ilbo" daily, "gyeongje" economy) and the copyright
\* sign as "(c)".

Hangul ==
    {"ibeon", "sageoneun", "simgakhan", "munje", "igeoseun", "jungyohan", "imnida", "gimcheolsu", "joseon", "yeonhap",
     "hanguk", "gija", "nyuseu", "sinmun", "ilbo", "gyeongje", "jeojakgwon", "ja", "sa", "bonsa", "mudanjeonjae", "mit",
     "jaebaepo", "geumji", "mudanbokje", "nyeon", "wol", "il", "ojeon", "ohu"}

Latin == {"p", "strong", "Copyright", "All", "rights", "reserved"}

Space == {" ", "\t", "\n"}

Digit == {"0", "2", "4"}

Punctuation == {"<", ">", "/", "[", "]", "(", ")", ".", ":", "-", "(c)"}

Alphabet == Hangul \cup Latin \cup Space \cup Digit \cup Punctuation

One(S) == [in |-> S, q |-> "one"]

Opt(S) == [in |-> S, q |-> "opt"]

Star(S) == [in |-> S, q |-> "star"]

Plus(S) == [in |-> S, q |-> "plus"]

Lit(t) == One({t})

\* The number of tokens of class S the text holds from position i on.
RECURSIVE RunLen(_, _, _)
RunLen(text, i, S) ==
    IF i <= Len(text) /\ text[i] \in S THEN 1 + RunLen(text, i + 1, S) ELSE 0

\* The regular-expression match of pat at position i of the text: the
\* position after the match, 0 when there is none.  A quantifier takes as
\* many tokens as it can and gives back until the rest of the pattern matches.
RECURSIVE MatchAt(_, _, _)
MatchAt(pat, text, i) ==
    IF pat = <<>> THEN i
    ELSE LET e == Head(pat)
             avail == RunLen(text, i, e.in)
             lo == IF e.q \in {"one", "plus"} THEN 1 ELSE 0
             hi == IF e.q \in {"one", "opt"} THEN Min(avail, 1) ELSE avail
             takes == {n \in lo..hi : MatchAt(Tail(pat), text, i + n) # 0}
         IN  IF takes = {} THEN 0
             ELSE MatchAt(Tail(pat), text,
                          i + CHOOSE n \in takes : \A m \in takes : m <= n)

\* re.sub(pat, repl, text) from position i on: the leftmost matches, which
\* do not overlap, are replaced by repl.
RECURSIVE SubFrom(_, _, _, _)
SubFrom(pat, repl, text, i) ==
    IF i > Len(text) THEN <<>>
    ELSE LET e == MatchAt(pat, text, i)
         IN  IF e = 0 THEN <<text[i]>> \o SubFrom(pat, repl, text, i + 1)
             ELSE repl \o SubFrom(pat, repl, text, e)

re_sub(pat, repl, text) == SubFrom(pat, repl, text, 1)

\* for pattern in patterns: content = re.sub(pattern, '', content)
RECURSIVE RemoveAll(_, _)
RemoveAll(patterns, text) ==
    IF patterns = <<>> THEN text
    ELSE CHOOSE out \in {RemoveAll(Tail(patterns), t) : t \in {re_sub(Head(patterns), <<>>, text)}} : TRUE

\* <[^>]+>
html_tag == <<Lit("<"), Plus(Alphabet \ {">"}), Lit(">")>>

reporter_patterns ==
    << <<Plus(Hangul), Star(Space), Lit("gija")>>,
       <<Plus(Latin), Star(Space), Lit("gija")>>,
       <<Lit("gija"), Star(Space), Plus(Hangul)>>,
       <<Lit("gija"), Star(Space), Plus(Latin)>>,
       <<Plus(Hangul), Star(Space), Plus(Latin), Star(Space), Lit("gija")>>,
       <<Plus(Latin), Star(Space), Plus(Hangul), Star(Space), Lit("gija")>>,
       <<Lit("gija"), Star(Space), Plus(Hangul), Star(Space), Plus(Latin)>>,
       <<Lit("gija"), Star(Space), Plus(Latin), Star(Space), Plus(Hangul)>> >>

\* [Hangul A-Za-z \s]+
Words == Plus(Hangul \cup Latin \cup Space)

\* \d{4}
Year == <<One(Digit), One(Digit), One(Digit), One(Digit)>>

\* \d{1,2}
OneOrTwoDigits == <<One(Digit), Opt(Digit)>>

copyright_patterns ==
    << <<Lit("Copyright"), Star(Space), Opt({"(c)"}), Star(Space)>> \o Year \o <<Star(Space), Words>>,
       <<Lit("(c)"), Star(Space)>> \o Year \o <<Star(Space), Words>>,
       <<Lit("jeojakgwon"), Star(Space), Opt({"(c)"}), Star(Space)>> \o Year \o <<Star(Space), Words>>,
       <<Lit("mudanjeonjae"), Star(Space), Lit("mit"), Star(Space), Lit("jaebaepo"), Star(Space), Lit("geumji")>>,
       <<Lit("mudanbokje"), Star(Space), Lit("geumji")>>,
       <<Lit("All"), Plus(Space), Lit("rights"), Plus(Space), Lit("reserved")>>,
       <<Lit("jeojakgwon"), Lit("ja"), Star(Space), Words>>,
       <<Lit("bonsa"), Star(Space), Words>>,
       <<Lit("sinmun"), Lit("sa"), Star(Space), Words>>,
       <<Lit("nyuseu"), Lit("sa"), Star(Space), Words>> >>

media_patterns ==
    << <<Lit("["), Words, Lit("]")>>,
       <<Lit("("), Words, Lit(")")>>,
       <<Words, Lit("nyuseu")>>,
       <<Words, Lit("sinmun")>>,
       <<Words, Lit("ilbo")>>,
       <<Words, Lit("gyeongje")>> >>

\* \d{1,2}:\d{2}
ClockTime == OneOrTwoDigits \o <<Lit(":"), One(Digit), One(Digit)>>

date_patterns ==
    << Year \o <<Lit("nyeon"), Star(Space)>> \o OneOrTwoDigits \o <<Lit("wol"), Star(Space)>>
            \o OneOrTwoDigits \o <<Lit("il")>>,
       Year \o <<Lit("-")>> \o OneOrTwoDigits \o <<Lit("-")>> \o OneOrTwoDigits,
       ClockTime,
       <<Lit("ojeon"), Star(Space)>> \o ClockTime,
       <<Lit("ohu"), Star(Space)>> \o ClockTime >>

\* content.strip()
RECURSIVE strip(_)
strip(text) ==
    IF text = <<>> THEN text
    ELSE IF Head(text) \in Space THEN strip(Tail(text))
    ELSE IF text[Len(text)] \in Space THEN strip(SubSeq(text, 1, Len(text) - 1))
    ELSE text

\* clean_evidence_content(content): tags, reporter, copyright, media and date
\* patterns in this order, then runs of blanks and of empty lines, then strip.
clean_evidence_content(text) ==
    IF text = <<>> THEN <<>>
    ELSE CHOOSE out \in
             {strip(re_sub(<<Lit("\n"), Star(Space), Lit("\n")>>, <<"\n">>, blanks)) :
                 blanks \in {re_sub(<<Plus({" ", "\t"})>>, <<" ">>, removed) :
                     removed \in {RemoveAll(<<html_tag>> \o reporter_patterns \o copyright_patterns
                                                \o media_patterns \o date_patterns, text)}}} : TRUE

\* 'expected in result': the text part occurs in the text whole.
Contains(whole, part) ==
    \E i \in 0..(Len(whole) - Len(part)) : SubSeq(whole, i + 1, i + Len(part)) = part

\* Substantive sentences: those of the examples of test_evidence_cleaning.py.
Sentences ==
    { <<"ibeon", " ", "sageoneun", " ", "simgakhan", " ", "munje", "imnida", ".">>,
      <<"igeoseun", " ", "jungyohan", " ", "nyuseu", "imnida", ".">>,
      <<"gyeongje", " ", "nyuseu", "imnida", ".">>,
      <<"igeoseun", " ", "jungyohan", " ", "munje", "imnida", ".">> }

\* Noise in front of the sentence: an opening tag, a bracketed outlet name.
NoiseBefore ==
    { <<>>,
      <<"<", "p", ">">>,
      <<"[", "joseon", "ilbo", "]", " ">>,
      <<"[", "yeonhap", "nyuseu", "]", " ">>,
      <<"<", "p", ">", "[", "yeonhap", "nyuseu", "]", " ">> }

\* Noise behind the sentence: a closing tag, a byline, a copyright notice.
NoiseAfter ==
    { <<>>,
      <<"<", "/", "p", ">">>,
      <<" ", "gimcheolsu", " ", "gija", ".">>,
      <<" ", "Copyright", " ", "(c)", " ", "2", "0", "2", "4", " ", "yeonhap", "nyuseu", ".">>,
      <<" ", "Copyright", " ", "(c)", " ", "2", "0", "2", "4", " ", "hanguk", "gyeongje", ".",
        " ", "All", " ", "rights", " ", "reserved", ".">>,
      <<" ", "gimcheolsu", " ", "gija", ".", " ", "Copyright", " ", "(c)", " ", "2", "0", "2", "4",
        " ", "yeonhap", "nyuseu", ".", "<", "/", "p", ">">>,
      <<" ", "mudanjeonjae", " ", "mit", " ", "jaebaepo", " ", "geumji">> }

\* The sentence with its third token between <strong> and </strong>.
Emphasised(sentence) ==
    SubSeq(sentence, 1, 2) \o <<"<", "strong", ">", sentence[3], "<", "/", "strong", ">">>
        \o SubSeq(sentence, 4, Len(sentence))

CleanStart ==
    /\ substance \in Sentences
    /\ \E before \in NoiseBefore, after \in NoiseAfter, emphasis \in BOOLEAN :
           content = before \o (IF emphasis THEN Emphasised(substance) ELSE substance) \o after
    /\ cleaned = NotCleaned

\* A call clean_evidence_content(content).
CleanContent ==
    /\ cleaned = NotCleaned
    /\ cleaned' = clean_evidence_content(content)
    /\ UNCHANGED <<content, substance>>
    /\ UNCHANGED notCleanVars

NextClean == CleanContent

InitClean == IdleCache /\ IdleScore /\ IdleClaim /\ IdleRequest /\ IdleReload /\ IdleRetrieve /\ IdleRuns /\ IdleWatch /\ CleanStart

SpecClean == InitClean /\ [][NextClean]_vars

\* C36: the output of clean_evidence_content on a substantive sentence with
\* tags, a byline, a copyright notice or a bracketed outlet name around it
\* still contains the substantive sentence.
C36_SentenceKept ==
    cleaned # NotCleaned => Contains(cleaned, substance)

====
